---- MODULE Spec2Model ----
(***************************************************************************)
(* Cadence: the signal bus (src/src/bus.ts) with its default collaborators *)
(* (in-memory transport, no-op store, sequential executor) and a custom    *)
(* configuration (a recording store as in docs/guides/pluggable-layers.md  *)
(* and a transport that may fail).                                         *)
(*                                                                         *)
(* JavaScript is single-threaded: an action of this model is one           *)
(* synchronous run of code, from the point where an async function is      *)
(* called or resumed up to the next await that suspends it.  Every async   *)
(* call (emit, replay) is a task; tasks interleave at their awaits.        *)
(***************************************************************************)
EXTENDS Integers, Sequences, FiniteSets, TLC

\* ---- bounds of the model ------------------------------------------------
MaxTasks == 2      \* emit() and replay() calls made in one behaviour
MaxRegs == 2       \* on() and onAny() calls made in one behaviour
MaxMw == 2         \* use() calls made in one behaviour
MaxClears == 1     \* clear() calls made in one behaviour

\* ---- inputs ---------------------------------------------------------------
Sigs == {"a", "b"}                 \* ids of the signals passed to emit (unique per signal)
Stored == <<"p", "q">>             \* unacked signals a recording store may hold at construction
Types == {"x", "y"}                \* signal types
Fns == {"h1", "h2"}                \* handler functions (identity matters to indexOf)

SigType(s) == IF s \in {"a", "p"} THEN "x" ELSE "y"

VARIABLES
  cfg,              \* "default": memory transport + no-op store; "custom": recording store + fallible transport
  typeHandlers,     \* Map<type, handler[]>: type -> id of its array (0: no entry)
  arrays,           \* the handler arrays ever created by on(), by id
  anyHandlers,      \* AnySignalHandler[]
  middlewareStack,  \* Middleware[]
  emittedCount, handledCount, errorCount,
  processing,       \* the sequential executor's counter
  saved, acked,     \* the recording store: rows in insertion order, ids marked acked
  tasks,            \* the emit()/replay() calls made so far, in call order
  regs,             \* the unsubscribe closures returned so far, in creation order
  nextMw,           \* number of use() calls so far (names the next middleware)
  clears,           \* number of clear() calls so far
  emitted,          \* the signals passed to emit() so far (ids are unique)
  clockKind,        \* the clock under study: "block" | "drop" | "adaptive" (interval clock), "test", "bridge"
  clock,            \* the closure state of the clock (handler, _running, _seq, busy, stats, ...)
  timers,           \* the pending setTimeout timers, in creation order
  cycles,           \* the async callbacks of the clock that wait for a handler to settle
  now,              \* Date.now() / performance.now()
  clog,             \* what the clock did so far: starts, stops, handler calls, dropped ticks
  lastCall,         \* the last call made on the clock: its name, the error it threw ("" if none),
                    \* the parity of the number of calls, whether the clock was running
  fed               \* test clock: the milliseconds passed to advanceBy since the last reset (-1 once
                    \* anything else moved the clock), the handler calls made before that reset, and
                    \* whether a call was ever made while an earlier call had not settled

clockVars == <<clockKind, clock, timers, cycles, now, clog, lastCall, fed>>

busVars == <<cfg, typeHandlers, arrays, anyHandlers, middlewareStack, emittedCount,
             handledCount, errorCount, processing, saved, acked, tasks, regs, nextMw, clears, emitted>>

vars == <<busVars, clockVars>>

tables == <<typeHandlers, arrays, anyHandlers, regs>>
counters == <<emittedCount, handledCount, errorCount>>
store == <<saved, acked>>

\* ---- helpers ------------------------------------------------------------
\* one entry of a handler array: the function, tagged with the registration that pushed it
Entry(fn, rid) == [fn |-> fn, rid |-> rid]

\* Array.prototype.indexOf on a handler array: first position holding fn, 0 for -1
IndexOf(list, fn) ==
  IF \E p \in 1..Len(list) : list[p].fn = fn
  THEN CHOOSE p \in 1..Len(list) : list[p].fn = fn /\ \A q \in 1..(p - 1) : list[q].fn # fn
  ELSE 0

\* list.splice(idx, 1)
Splice(list, p) == [q \in 1..(Len(list) - 1) |-> IF q < p THEN list[q] ELSE list[q + 1]]

\* the array object behind an id; id 0 is the fresh empty array of `?? []`
ArrOf(id) == IF id = 0 THEN <<>> ELSE arrays[id]

\* an observable event of one task, in the order it happened
Ev(e, sig, s, n) == [e |-> e, sig |-> sig, s |-> s, n |-> n]

Final == {"resolved", "rejected"}
InFlight(t) == t.pc \notin Final
Running(t) == IF t.pc = "handler" THEN 1 ELSE 0

\* unsubscribe calls that removed an entry so far
RECURSIVE Removed(_)
Removed(rs) == IF rs = <<>> THEN 0 ELSE Head(rs).removed + Removed(Tail(rs))

NewTask(kind, s, pc) ==
  [kind |-> kind, sig |-> s, pc |-> pc,
   chain |-> <<>>, depth |-> 0,            \* the chain built by processSignal, the middleware running
   phase |-> "none", arr |-> 0, i |-> 0,   \* runHandlers: which loop, the array iterated, the index
   cur |-> 0,                              \* registration of the handler being executed
   got |-> <<>>, todo |-> <<>>, n |-> 0,   \* replay: unacked, the signals still to dispatch, the value returned
   tr |-> <<>>,                            \* history: the events of this call
   \* history: the bus when the call was made, the handler lists when runHandlers began
   solo |-> \A j \in DOMAIN tasks : ~InFlight(tasks[j]),
   m0 |-> emittedCount, h0 |-> handledCount, e0 |-> errorCount,
   r0 |-> Len(regs), u0 |-> Removed(regs), c0 |-> clears,
   reg0 |-> IF s = "" THEN 0 ELSE Len(ArrOf(typeHandlers[SigType(s)])) + Len(anyHandlers),
   snapT |-> <<>>, snapA |-> <<>>]

Log(t, ev) == [t EXCEPT !.tr = Append(@, ev)]

\* the call settles: its frame is gone; what remains is the settled promise with
\* its value and, as history of a rejected call, the signal and what the call
\* did to the store and the transport
StoreEvents == {"saved", "send", "throw", "ack"}

Settle(t, pc) ==
  [kind |-> t.kind, pc |-> pc, chain |-> <<>>, depth |-> 0, phase |-> "none",
   arr |-> 0, i |-> 0, cur |-> 0, got |-> <<>>, todo |-> <<>>,
   n |-> IF pc = "resolved" THEN t.n ELSE 0,
   sig |-> IF pc = "rejected" THEN t.sig ELSE "",
   tr |-> IF pc = "rejected" THEN SelectSeq(t.tr, LAMBDA ev : ev.e \in StoreEvents) ELSE <<>>,
   solo |-> TRUE, m0 |-> 0, h0 |-> 0, e0 |-> 0, r0 |-> 0, u0 |-> 0, c0 |-> 0, reg0 |-> 0,
   snapT |-> <<>>, snapA |-> <<>>]

\* ---- the sequential executor and runHandlers ------------------------------
\* executor.execute(handler, signal): the handler is invoked synchronously
Execute(t, entry) ==
  Log([t EXCEPT !.pc = "handler", !.cur = entry.rid], Ev("call", t.sig, entry.fn, entry.rid))

\* the two loops of runHandlers, from the current position to the next handler
\* invocation or to the end; typed phase: i is the array iterator's next index,
\* any phase: i is the loop variable
NextHandler(t) ==
  IF t.phase = "typed" /\ t.i < Len(ArrOf(t.arr))
  THEN Execute([t EXCEPT !.i = t.i + 1], ArrOf(t.arr)[t.i + 1])
  ELSE LET j == IF t.phase = "typed" THEN 0 ELSE t.i IN
       IF j < Len(anyHandlers)
       THEN Execute([t EXCEPT !.phase = "any", !.i = j], anyHandlers[j + 1])
       ELSE [t EXCEPT !.phase = "done", !.i = j, !.cur = 0, !.pc = "unwind", !.depth = Len(t.chain)]

RunHandlers(t) ==
  NextHandler([t EXCEPT !.phase = "typed", !.arr = typeHandlers[SigType(t.sig)], !.i = 0,
                        !.snapT = ArrOf(typeHandlers[SigType(t.sig)]), !.snapA = anyHandlers])

\* chain element d of processSignal: middleware d, or runHandlers after the last one
CallChain(t, d) ==
  IF d <= Len(t.chain)
  THEN Log([t EXCEPT !.pc = "mw", !.depth = d], Ev("pre", t.sig, "mw", t.chain[d]))
  ELSE RunHandlers(t)

\* (mutant) the chain is folded from the first middleware, so the last one is outermost
ProcessSignalReversed(t) ==
  CallChain([t EXCEPT !.chain = [p \in 1..Len(middlewareStack) |->
                                   middlewareStack[Len(middlewareStack) + 1 - p]]], 1)

ProcessSignal(t) == CallChain([t EXCEPT !.chain = middlewareStack], 1)

\* memory transport: the bus's single subscriber is processSignal
TransportEmit(t) == ProcessSignal(Log(t, Ev("send", t.sig, "", 0)))

\* `type:${signal.type}` and `any:${i}`
Label(t) == IF t.phase = "typed" THEN "type:" \o SigType(t.sig) ELSE "any:" \o ToString(t.i)

\* store.getUnacked() of the recording store; [] for the no-op store
GetUnacked == SelectSeq(saved, LAMBDA s : s \notin acked)

SetTask(k, t) ==
  /\ tasks' = [tasks EXCEPT ![k] = t]
  /\ processing' = processing - Running(tasks[k]) + Running(t)

\* ---- Init ---------------------------------------------------------------
\* createSignalBus(options): c is the configuration, st the rows the store holds
Boot(c, st) ==
  /\ cfg = c
  /\ typeHandlers = [ty \in Types |-> 0]
  /\ arrays = [id \in 1..(MaxRegs + 1) |-> <<>>]
  /\ anyHandlers = <<>>
  /\ middlewareStack = <<>>
  /\ emittedCount = 0 /\ handledCount = 0 /\ errorCount = 0
  /\ processing = 0
  /\ saved = st
  /\ acked = {}
  /\ tasks = <<>>
  /\ regs = <<>>
  /\ nextMw = 1
  /\ clears = 0
  /\ emitted = {}

\* ---- the clocks: state ---------------------------------------------------
IntervalMs == 2        \* intervalMs of the interval clock and of the test clock
MaxCatchUpTicks == 1   \* maxCatchUpTicks of the interval clock
MaxTime == 6           \* the model stops time at this value of Date.now()
MaxLate == 2           \* a timer fires at most this long after it is due
MaxStarts == 2         \* successful start() calls in one behaviour
MaxCycles == 2         \* async callbacks of the clock in flight at once
MaxPushes == 3         \* handler invocations logged for the test and bridge clocks
MaxWait == 1           \* Date.now() up to which a handler of those clocks is followed
MaxDriftTime == 20     \* Date.now() up to which the drift detector is followed
MaxLiveTime == 8       \* Date.now() up to which the drop policy is followed for progress
MaxSettle == 3         \* there, a handler settles at most this long after it was invoked
DRIFT_WARN_COUNT == 5  \* DRIFT_WARN_COUNT (interval.ts 42); DRIFT_WARN_RATIO is 8 / 10

Handlers == {"h1", "h2"}    \* tick handlers passed to start (h1 first, then h2)

\* createIntervalClock / createTestClock / createBridgeClock: the closure variables
ClockBoot(kd) ==
  /\ clockKind = kd
  /\ clock = [handler |-> "", running |-> FALSE, seq |-> 0, busy |-> FALSE,
              tickCount |-> 0, droppedTicks |-> 0, errors |-> 0,
              totalHandlerMs |-> 0, totalDriftMs |-> 0, lastTickAt |-> 0, maxHandlerMs |-> 0,
              consecutiveHighDrift |-> 0, nextIdealTime |-> 0, accumulator |-> 0,
              virtualTime |-> 0]
  /\ timers = <<>>
  /\ cycles = <<>>
  /\ now = 0
  /\ clog = <<>>
  /\ lastCall = [op |-> "", err |-> "", par |-> 0, was |-> FALSE]
  /\ fed = [sum |-> 0, base |-> 0, conc |-> FALSE]

Init == (\E c \in {"default", "custom"} : Boot(c, <<>>)) /\ ClockBoot("block")

\* ---- subscription -------------------------------------------------------
On(ty, fn) ==
  /\ Len(regs) < MaxRegs
  /\ LET rid == Len(regs) + 1
         id == IF typeHandlers[ty] = 0 THEN rid ELSE typeHandlers[ty]
     IN /\ typeHandlers' = [typeHandlers EXCEPT ![ty] = id]
        /\ arrays' = [arrays EXCEPT ![id] = Append(@, Entry(fn, rid))]
        /\ regs' = Append(regs, [list |-> id, fn |-> fn, removed |-> 0])
  /\ UNCHANGED <<clockVars, cfg, anyHandlers, middlewareStack, counters, processing, store, tasks, nextMw, clears, emitted>>

OnAny(fn) ==
  /\ Len(regs) < MaxRegs
  /\ anyHandlers' = Append(anyHandlers, Entry(fn, Len(regs) + 1))
  /\ regs' = Append(regs, [list |-> 0, fn |-> fn, removed |-> 0])
  /\ UNCHANGED <<clockVars, cfg, typeHandlers, arrays, middlewareStack, counters, processing, store, tasks, nextMw, clears, emitted>>

\* the closure returned by registration r is called (by anyone: a handler that
\* is running, or the code that made the registration)
Unsub(r) ==
  /\ r \in DOMAIN regs
  /\ LET c == regs[r]
         list == IF c.list = 0 THEN anyHandlers ELSE arrays[c.list]
         idx == IndexOf(list, c.fn)
     IN /\ idx # 0
        /\ IF c.list = 0
           THEN anyHandlers' = Splice(anyHandlers, idx) /\ UNCHANGED arrays
           ELSE arrays' = [arrays EXCEPT ![c.list] = Splice(@, idx)] /\ UNCHANGED anyHandlers
        /\ regs' = [regs EXCEPT ![r].removed = @ + 1]
  /\ UNCHANGED <<clockVars, cfg, typeHandlers, middlewareStack, counters, processing, store, tasks, nextMw, clears, emitted>>

\* (mutant) the chain of a dispatch in progress reads the live middleware array
UseLive ==
  /\ nextMw <= MaxMw
  /\ middlewareStack' = Append(middlewareStack, nextMw)
  /\ nextMw' = nextMw + 1
  /\ tasks' = [k \in DOMAIN tasks |->
                IF tasks[k].pc \in {"mw", "handler", "unwind"}
                THEN [tasks[k] EXCEPT !.chain = Append(@, nextMw)] ELSE tasks[k]]
  /\ UNCHANGED <<clockVars, cfg, tables, counters, processing, store, clears, emitted>>

Use ==
  /\ nextMw <= MaxMw
  /\ middlewareStack' = Append(middlewareStack, nextMw)
  /\ nextMw' = nextMw + 1
  /\ UNCHANGED <<clockVars, cfg, tables, counters, processing, store, tasks, clears, emitted>>

\* (mutant) clear() leaves the any-handlers registered
ClearKeepsAny ==
  /\ clears < MaxClears
  /\ typeHandlers' = [ty \in Types |-> 0]
  /\ middlewareStack' = <<>>
  /\ clears' = clears + 1
  /\ UNCHANGED <<clockVars, cfg, arrays, anyHandlers, regs, counters, processing, store, tasks, nextMw, emitted>>

Clear ==
  /\ clears < MaxClears
  /\ typeHandlers' = [ty \in Types |-> 0]
  /\ anyHandlers' = <<>>
  /\ middlewareStack' = <<>>
  /\ clears' = clears + 1
  /\ UNCHANGED <<clockVars, cfg, arrays, regs, counters, processing, store, tasks, nextMw, emitted>>

\* stats()
RECURSIVE SumLen(_)
SumLen(S) == IF S = {} THEN 0
             ELSE LET ty == CHOOSE u \in S : TRUE
                  IN (IF typeHandlers[ty] = 0 THEN 0 ELSE Len(arrays[typeHandlers[ty]])) + SumLen(S \ {ty})

Stats == [emitted |-> emittedCount, handled |-> handledCount, errors |-> errorCount,
          handlers |-> SumLen(Types), anyHandlers |-> Len(anyHandlers),
          middleware |-> Len(middlewareStack)]

\* ---- emit ---------------------------------------------------------------
\* emit(signal) up to `await store.save(signal)`
EmitCall(s) ==
  /\ Len(tasks) < MaxTasks
  /\ s \notin emitted
  /\ emitted' = emitted \cup {s}
  /\ emittedCount' = emittedCount + 1
  /\ tasks' = Append(tasks, Log(NewTask("emit", s, "save"), Ev("save", s, "", 0)))
  /\ UNCHANGED <<clockVars, cfg, tables, middlewareStack, handledCount, errorCount, processing, store, nextMw, clears>>

\* the no-op store's promises are already resolved: continuations run in call order
Fifo(k) == cfg = "default" => \A j \in 1..(k - 1) : tasks[j].pc \notin {"save", "fetch"}

\* (mutant) emit marks the signal acked right after save, without dispatching it
AfterSaveAckFirst(t, r) ==
  IF r = "ok"
  THEN Log(Log([t EXCEPT !.pc = "ack"], Ev("saved", t.sig, "", 0)), Ev("ack", t.sig, "", 0))
  ELSE Settle(Log(t, Ev("throw", t.sig, "save", 0)), "rejected")

\* emit resumed after save: the outcome of save, then transport.emit(signal)
AfterSave(t, r) ==
  IF r = "saveThrows" THEN Settle(Log(t, Ev("throw", t.sig, "save", 0)), "rejected")
  ELSE IF r = "transportThrows"
  THEN Settle(Log(Log(Log(t, Ev("saved", t.sig, "", 0)), Ev("send", t.sig, "", 0)),
                  Ev("throw", t.sig, "transport", 0)), "rejected")
  ELSE TransportEmit(Log(t, Ev("saved", t.sig, "", 0)))

SaveDone(k, r) ==
  /\ k \in DOMAIN tasks /\ tasks[k].pc = "save" /\ Fifo(k)
  /\ r = "ok" \/ cfg = "custom"
  /\ saved' = IF cfg = "custom" /\ r # "saveThrows" THEN Append(saved, tasks[k].sig) ELSE saved
  /\ SetTask(k, AfterSave(tasks[k], r))
  /\ UNCHANGED <<clockVars, cfg, tables, middlewareStack, counters, acked, nextMw, clears, emitted>>

\* (mutant) the bus catches a middleware error and goes on as if it had returned
MwBodyCaught(t, c) ==
  IF c = "next" THEN CallChain(t, t.depth + 1)
  ELSE IF c = "return"
  THEN Log([t EXCEPT !.pc = "unwind", !.depth = t.depth - 1], Ev("ret", t.sig, "mw", t.chain[t.depth]))
  ELSE Log([t EXCEPT !.pc = "unwind", !.depth = 0], Ev("throw", t.sig, "mw", t.chain[t.depth]))

\* the running middleware decides: await next(), return without next(), or throw
MwBody(t, c) ==
  IF c = "next" THEN CallChain(t, t.depth + 1)
  ELSE IF c = "return"
  THEN Log([t EXCEPT !.pc = "unwind", !.depth = t.depth - 1], Ev("ret", t.sig, "mw", t.chain[t.depth]))
  ELSE Settle(Log(t, Ev("throw", t.sig, "mw", t.chain[t.depth])), "rejected")

MwStep(k, c) ==
  /\ k \in DOMAIN tasks /\ tasks[k].pc = "mw"
  /\ SetTask(k, MwBody(tasks[k], c))
  /\ UNCHANGED <<clockVars, cfg, tables, middlewareStack, counters, store, nextMw, clears, emitted>>

\* runHandlers resumed after `await executor.execute(...)`: count, report, go on
AfterHandler(t, r) ==
  LET t1 == IF r = "ok" THEN Log(t, Ev("ok", t.sig, "", t.cur))
            ELSE Log(Log(t, Ev("err", t.sig, "", t.cur)), Ev("onError", t.sig, Label(t), t.cur))
      t2 == IF t.phase = "any" THEN [t1 EXCEPT !.i = t.i + 1] ELSE t1
  IN NextHandler(t2)

\* (mutant) a handler that threw is counted as handled as well
HandlerDoneMiscounted(k, r) ==
  /\ k \in DOMAIN tasks /\ tasks[k].pc = "handler"
  /\ handledCount' = handledCount + 1
  /\ errorCount' = IF r = "ok" THEN errorCount ELSE errorCount + 1
  /\ SetTask(k, AfterHandler(tasks[k], r))
  /\ UNCHANGED <<clockVars, cfg, tables, middlewareStack, emittedCount, store, nextMw, clears, emitted>>

HandlerDone(k, r) ==
  /\ k \in DOMAIN tasks /\ tasks[k].pc = "handler"
  /\ IF r = "ok"
     THEN handledCount' = handledCount + 1 /\ UNCHANGED errorCount
     ELSE errorCount' = errorCount + 1 /\ UNCHANGED handledCount
  /\ SetTask(k, AfterHandler(tasks[k], r))
  /\ UNCHANGED <<clockVars, cfg, tables, middlewareStack, emittedCount, store, nextMw, clears, emitted>>

\* `await next()` returned in middleware t.depth: its code after next() runs
MwAfter(t, r) ==
  IF r = "ok"
  THEN Log([t EXCEPT !.depth = t.depth - 1], Ev("post", t.sig, "mw", t.chain[t.depth]))
  ELSE Settle(Log(t, Ev("throw", t.sig, "mw", t.chain[t.depth])), "rejected")

Unwind(k, r) ==
  /\ k \in DOMAIN tasks /\ tasks[k].pc = "unwind" /\ tasks[k].depth > 0
  /\ SetTask(k, MwAfter(tasks[k], r))
  /\ UNCHANGED <<clockVars, cfg, tables, middlewareStack, counters, store, nextMw, clears, emitted>>

\* (mutant) a signal whose chain was cut short by a middleware is not marked acked
AfterTransportSkipsShort(t) ==
  IF \E p \in DOMAIN t.tr : t.tr[p].e = "ret" /\ t.tr[p].sig = t.sig
  THEN IF t.kind = "emit" \/ t.todo = <<>> THEN Settle(t, "resolved")
       ELSE TransportEmit([t EXCEPT !.sig = Head(t.todo), !.todo = Tail(t.todo)])
  ELSE Log([t EXCEPT !.pc = "ack"], Ev("ack", t.sig, "", 0))

\* transport.emit resolved: store.markAcked(signal.id) is called
AfterTransport(t) == Log([t EXCEPT !.pc = "ack"], Ev("ack", t.sig, "", 0))

AckCall(k) ==
  /\ k \in DOMAIN tasks /\ tasks[k].pc = "unwind" /\ tasks[k].depth = 0
  /\ SetTask(k, AfterTransport(tasks[k]))
  /\ UNCHANGED <<clockVars, cfg, tables, middlewareStack, counters, store, nextMw, clears, emitted>>

\* markAcked resolved: emit resolves; replay goes on with the next signal
AfterAck(t) ==
  IF t.kind = "emit" \/ t.todo = <<>> THEN Settle(t, "resolved")
  ELSE TransportEmit([t EXCEPT !.sig = Head(t.todo), !.todo = Tail(t.todo)])

AckDone(k) ==
  /\ k \in DOMAIN tasks /\ tasks[k].pc = "ack"
  /\ acked' = IF cfg = "custom" THEN acked \cup {tasks[k].sig} ELSE acked
  /\ SetTask(k, AfterAck(tasks[k]))
  /\ UNCHANGED <<clockVars, cfg, tables, middlewareStack, counters, saved, nextMw, clears, emitted>>

\* ---- replay -------------------------------------------------------------
ReplayCall ==
  /\ Len(tasks) < MaxTasks
  /\ tasks' = Append(tasks, Log(NewTask("replay", "", "fetch"), Ev("getUnacked", "", "", 0)))
  /\ UNCHANGED <<clockVars, cfg, tables, middlewareStack, counters, processing, store, nextMw, clears, emitted>>

\* (mutant) replay takes the unacked signals from the end of the list
AfterFetchFromEnd(t, unacked) ==
  IF unacked = <<>> THEN Settle([t EXCEPT !.n = 0], "resolved")
  ELSE TransportEmit([t EXCEPT !.got = unacked, !.n = Len(unacked),
                               !.sig = unacked[Len(unacked)],
                               !.todo = [p \in 1..(Len(unacked) - 1) |-> unacked[Len(unacked) - p]]])

\* replay resumed with the unacked list
AfterFetch(t, unacked) ==
  IF unacked = <<>> THEN Settle([t EXCEPT !.n = 0], "resolved")
  ELSE TransportEmit([t EXCEPT !.got = unacked, !.n = Len(unacked),
                               !.sig = Head(unacked), !.todo = Tail(unacked)])

Fetched(k) ==
  /\ k \in DOMAIN tasks /\ tasks[k].pc = "fetch" /\ Fifo(k)
  /\ SetTask(k, AfterFetch(tasks[k], GetUnacked))
  /\ UNCHANGED <<clockVars, cfg, tables, middlewareStack, counters, store, nextMw, clears, emitted>>

\* the handler functions a registration may pass: the names are interchangeable,
\* so the first function ever registered is called h1
NewFns == IF regs = <<>> THEN {"h1"} ELSE Fns

\* ---- specifications -------------------------------------------------------
Idle == \A j \in DOMAIN tasks : ~InFlight(tasks[j])

\* the steps of the calls in flight
Step ==
  \/ \E k \in 1..MaxTasks, r \in {"ok", "saveThrows", "transportThrows"} : SaveDone(k, r)
  \/ \E k \in 1..MaxTasks, c \in {"next", "return", "throw"} : MwStep(k, c)
  \/ \E k \in 1..MaxTasks, r \in {"ok", "throw"} : HandlerDone(k, r)
  \/ \E k \in 1..MaxTasks, r \in {"ok", "throw"} : Unwind(k, r)
  \/ \E k \in 1..MaxTasks : AckCall(k)
  \/ \E k \in 1..MaxTasks : AckDone(k)
  \/ \E k \in 1..MaxTasks : Fetched(k)

\* Spec: the caller awaits each emit() and replay() before it makes the next
\* call; handlers, middleware and the caller subscribe, unsubscribe and add
\* middleware at any time, also while a signal is being dispatched
Next ==
  \/ \E ty \in Types, fn \in NewFns : On(ty, fn)
  \/ \E fn \in NewFns : OnAny(fn)
  \/ \E r \in 1..MaxRegs : Unsub(r)
  \/ Use
  \/ Idle /\ \E s \in Sigs : EmitCall(s)
  \/ Idle /\ ReplayCall
  \/ Step

Spec == Init /\ [][Next]_vars

\* SpecConc: the bus is set up first (on, onAny, use), then emit() and replay()
\* are called without awaiting earlier calls; unsubscribe functions are called
\* at any time
NextConc ==
  \/ tasks = <<>> /\ \E ty \in Types, fn \in NewFns : On(ty, fn)
  \/ tasks = <<>> /\ \E fn \in NewFns : OnAny(fn)
  \/ tasks = <<>> /\ Use
  \/ \E r \in 1..MaxRegs : Unsub(r)
  \/ \E s \in Sigs : EmitCall(s)
  \/ ReplayCall
  \/ Step

SpecConc == Boot("default", <<>>) /\ ClockBoot("block") /\ [][NextConc]_vars

\* SpecReplay: a bus constructed after a restart, on a recording store that holds
\* unacked signals or with the defaults; it is set up first, and the caller
\* awaits each call
NextReplay ==
  \/ tasks = <<>> /\ \E ty \in Types, fn \in NewFns : On(ty, fn)
  \/ tasks = <<>> /\ \E fn \in NewFns : OnAny(fn)
  \/ tasks = <<>> /\ Use
  \/ Idle /\ \E s \in Sigs : EmitCall(s)
  \/ Idle /\ ReplayCall
  \/ Step

InitReplay == (Boot("custom", Stored) \/ Boot("default", <<>>)) /\ ClockBoot("block")

SpecReplay == InitReplay /\ [][NextReplay]_vars

\* SpecClear: the default bus whose caller awaits each call; handlers are
\* subscribed, middleware is added and clear() is called at any time
NextClear ==
  \/ \E ty \in Types, fn \in NewFns : On(ty, fn)
  \/ \E fn \in NewFns : OnAny(fn)
  \/ Use
  \/ Clear
  \/ Idle /\ \E s \in Sigs : EmitCall(s)
  \/ Idle /\ ReplayCall
  \/ Step

SpecClear == Boot("default", <<>>) /\ ClockBoot("block") /\ [][NextClear]_vars

TypeOK ==
  /\ processing \in 0..MaxTasks
  /\ emittedCount \in 0..MaxTasks
  /\ Len(regs) <= MaxRegs

\* ---- reading the history of a call ---------------------------------------
HasEv(tr, e) == \E p \in 1..Len(tr) : tr[p].e = e
Pick(tr, E) == SelectSeq(tr, LAMBDA ev : ev.e \in E)
Ns(tr) == [p \in 1..Len(tr) |-> tr[p].n]
SigsOf(tr) == [p \in 1..Len(tr) |-> tr[p].sig]
Reverse(q) == [p \in 1..Len(q) |-> q[Len(q) + 1 - p]]
Increasing(q) == \A p \in 1..(Len(q) - 1) : q[p] < q[p + 1]
RangeOf(q) == {q[p] : p \in 1..Len(q)}
IsPrefix(q, r) == Len(q) <= Len(r) /\ \A p \in 1..Len(q) : q[p] = r[p]

\* the events of the dispatch in progress: from the last transport.emit on
LastSend(tr) == IF HasEv(tr, "send")
                THEN CHOOSE p \in 1..Len(tr) : tr[p].e = "send" /\ \A q \in (p + 1)..Len(tr) : tr[q].e # "send"
                ELSE 1
Seg(t) == SubSeq(t.tr, LastSend(t.tr), Len(t.tr))

\* every handler and middleware invocation in tr has returned
Settled(tr) ==
  /\ \A p \in 1..Len(tr) : tr[p].e = "call" =>
        \E q \in (p + 1)..Len(tr) : tr[q].e \in {"ok", "err"} /\ tr[q].n = tr[p].n
  /\ \A p \in 1..Len(tr) : tr[p].e = "pre" =>
        \E q \in (p + 1)..Len(tr) : tr[q].e \in {"post", "ret"} /\ tr[q].n = tr[p].n

\* task k resolves in this step
Resolves(k) == tasks[k].pc # "resolved" /\ tasks'[k].pc = "resolved"

\* ---- C1 ------------------------------------------------------------------
\* what an emit call did, read when it resolves: save was called and completed
\* before transport.emit was called, every middleware and handler invocation
\* had returned before markAcked was called, and markAcked was called once, last
EmitOrder(tr) ==
  /\ Len(tr) >= 4
  /\ tr[1].e = "save" /\ tr[2].e = "saved" /\ tr[3].e = "send"
  /\ \A p \in 4..Len(tr) : tr[p].e \notin {"save", "saved", "send"}
  /\ \A p \in 1..Len(tr) : tr[p].e = "ack" <=> p = Len(tr)
  /\ Settled(SubSeq(tr, 1, Len(tr) - 1))

C2_Rejects ==
  \A k \in DOMAIN tasks : tasks[k].kind = "emit" =>
    /\ HasEv(tasks[k].tr, "throw") <=> tasks[k].pc = "rejected"
    /\ tasks[k].pc = "rejected" =>
         /\ ~HasEv(tasks[k].tr, "ack")
         /\ ~HasEv(tasks[k].tr, "saved") => ~HasEv(tasks[k].tr, "send")

\* when an emit whose save succeeded is rejected, the recording store returns
\* its signal from getUnacked and the step marks nothing acked
C2_StillUnacked ==
  \A k \in DOMAIN tasks :
    (tasks[k].kind = "emit" /\ tasks[k].pc # "rejected" /\ tasks'[k].pc = "rejected") =>
      /\ acked' = acked
      /\ (cfg = "custom" /\ HasEv(tasks'[k].tr, "saved")) => tasks[k].sig \in RangeOf(GetUnacked')
      /\ ~HasEv(tasks'[k].tr, "saved") => saved' = saved

\* a signal leaves getUnacked only when a markAcked resolves that was called
\* after the signal's whole dispatch (middleware and handlers) had returned
C2_AckedAfterDispatch ==
  \A s \in RangeOf(GetUnacked) \ RangeOf(GetUnacked') :
    \E k \in DOMAIN tasks :
      /\ tasks[k].pc = "ack" /\ tasks[k].sig = s /\ tasks'[k] # tasks[k]
      /\ LET seg == Seg(tasks[k]) IN
           /\ seg[1].e = "send" /\ seg[Len(seg)].e = "ack"
           /\ Settled(SubSeq(seg, 1, Len(seg) - 1))

\* C2: if store.save, transport.emit or a middleware throws during emit, emit
\* rejects and does not call markAcked (and does not call the transport when
\* save threw); with a recording store a signal whose save succeeded and whose
\* emit rejected is still returned by getUnacked, and it is acked only after a
\* later replay has dispatched it.
C2_AtLeastOnce == [][C2_Rejects' /\ C2_StillUnacked /\ C2_AckedAfterDispatch]_vars

\* a replay about to ack, after a handler ran for it, the signal of a rejected emit
C2_Witness ==
  \E j, k \in DOMAIN tasks :
    /\ tasks[j].kind = "emit" /\ tasks[j].pc = "rejected" /\ HasEv(tasks[j].tr, "saved")
    /\ tasks[k].kind = "replay" /\ tasks[k].pc = "ack" /\ tasks[k].sig = tasks[j].sig
    /\ HasEv(Seg(tasks[k]), "ok")

\* ---- C3 ------------------------------------------------------------------
\* the handler invocations of the dispatch in progress
Calls(t) == Pick(Seg(t), {"call"})
CalledRids(t) == RangeOf(Ns(Calls(t)))
\* the entries of a list snapshot that are still in the list
StillIn(snap, list) == SelectSeq(snap, LAMBDA en : \E p \in 1..Len(list) : list[p] = en)

\* C3: within the dispatch of one signal every typed handler registered for the
\* signal's type is invoked, in registration order, before any any-handler, the
\* any-handlers are invoked in registration order, each invocation has resolved
\* before the next begins, and no handler of another type is invoked.  Read
\* when runHandlers has finished, for the handlers registered when it began and
\* still registered when it ended.
C3_HandlerOrder ==
  \A k \in DOMAIN tasks :
    LET t == tasks[k]
        seg == Pick(Seg(t), {"call", "ok", "err"})
        typed == SelectSeq(Calls(t), LAMBDA ev : regs[ev.n].list # 0)
        any == SelectSeq(Calls(t), LAMBDA ev : regs[ev.n].list = 0)
    IN (InFlight(t) /\ t.phase = "done") =>
         /\ \A p \in 1..Len(StillIn(t.snapT, ArrOf(t.arr))) :
              StillIn(t.snapT, ArrOf(t.arr))[p].rid \in CalledRids(t)
         /\ \A p \in 1..Len(StillIn(t.snapA, anyHandlers)) :
              StillIn(t.snapA, anyHandlers)[p].rid \in CalledRids(t)
         /\ Calls(t) = typed \o any
         /\ Increasing(Ns(typed)) /\ Increasing(Ns(any))
         /\ \A p \in 1..Len(typed) : regs[typed[p].n].list = typeHandlers[SigType(t.sig)]
         /\ \A p \in 1..Len(seg) :
              IF p % 2 = 1 THEN seg[p].e = "call"
              ELSE seg[p].e \in {"ok", "err"} /\ seg[p].n = seg[p - 1].n

\* ---- C4 ------------------------------------------------------------------
\* C4: a handler that throws never rejects emit: it adds exactly one to errors,
\* onError is called once with the label "type:<type>" or "any:<index>", every
\* remaining handler for the signal is still invoked, and the signal is acked.
C4_HandlerThrows ==
  \A k \in DOMAIN tasks :
    LET t == tasks[k]
        seg == Seg(t)
    IN /\ t.pc = "rejected" => HasEv(t.tr, "throw")
       /\ InFlight(t) =>
            /\ \A p \in 1..Len(seg) : seg[p].e = "err" =>
                 /\ p < Len(seg) /\ seg[p + 1].e = "onError" /\ seg[p + 1].n = seg[p].n
                 /\ seg[p + 1].s \in {"type:" \o SigType(t.sig)} \cup
                                     {"any:" \o ToString(i) : i \in 0..(MaxRegs - 1)}
                 /\ (regs[seg[p].n].list = 0) <=> (seg[p + 1].s \notin {"type:x", "type:y"})
            /\ Len(Pick(seg, {"onError"})) = Len(Pick(seg, {"err"}))
            /\ t.kind = "emit" => errorCount = t.e0 + Len(Pick(seg, {"err"}))
            /\ (t.phase = "done" /\ HasEv(seg, "err")) =>
                 \A en \in RangeOf(StillIn(t.snapT, ArrOf(t.arr))) \cup
                           RangeOf(StillIn(t.snapA, anyHandlers)) : en.rid \in CalledRids(t)
            /\ (t.phase = "done" /\ t.depth = 0 /\ HasEv(seg, "err")) => t.pc \in {"unwind", "ack"}

\* ---- C5 ------------------------------------------------------------------
\* the onion of one dispatch: the middlewares enter in registration order (they
\* are numbered in the order of use()), the handlers run inside the innermost,
\* the middlewares that called next() leave in the reverse order; after a
\* middleware returned without next() nothing more is entered or invoked
Onion(t) ==
  LET seg == Seg(t)
      pres == Ns(Pick(seg, {"pre"}))
      posts == Ns(Pick(seg, {"post"}))
      rets == Ns(Pick(seg, {"ret"}))
      inner == SelectSeq(pres, LAMBDA m : m \notin RangeOf(rets))
  IN /\ Increasing(t.chain)
     /\ IsPrefix(pres, t.chain)
     /\ IsPrefix(posts, Reverse(inner))
     /\ Len(rets) <= 1
     /\ \A p \in 1..Len(seg) :
          /\ seg[p].e = "call" => /\ pres = t.chain /\ rets = <<>>
                                  /\ \A q \in 1..Len(seg) : (seg[q].e = "pre" => q < p)
                                                         /\ (seg[q].e = "post" => p < q)
          /\ seg[p].e = "ret" => /\ seg[p].n = pres[Len(pres)]
                                 /\ \A q \in (p + 1)..Len(seg) : seg[q].e \notin {"pre", "call"}
                                 /\ ~HasEv(seg, "call")
     /\ t.pc = "ack" => /\ posts = Reverse(inner)
                        /\ rets = <<>> => pres = t.chain /\ t.phase = "done"

\* C5: middleware is an onion: when M1..Mn are registered in that order and
\* each calls next(), the code before next() runs in the order M1..Mn, then the
\* handlers run, then the code after next() runs in the order Mn..M1; when a
\* middleware returns without calling next(), no later middleware and no handler
\* is invoked for the signal.
C5_Onion == \A k \in DOMAIN tasks : InFlight(tasks[k]) => Onion(tasks[k])

\* a dispatch through two middlewares that both called next(), with a handler
C5_Witness ==
  \E k \in DOMAIN tasks :
    /\ tasks[k].pc = "ack" /\ tasks[k].chain = <<1, 2>>
    /\ Ns(Pick(Seg(tasks[k]), {"post"})) = <<2, 1>>
    /\ HasEv(Seg(tasks[k]), "call")

\* ---- C6 ------------------------------------------------------------------
\* C6: with the default transport, store and sequential executor, for two emit
\* calls issued in order (awaited or not), no handler for the second signal
\* begins before every handler for the first signal has resolved.
C6_NoOverlap ==
  \A j, k \in DOMAIN tasks :
    (j < k /\ tasks[j].kind = "emit" /\ tasks[k].kind = "emit"
       /\ cfg = "default" /\ HasEv(tasks[k].tr, "call"))
    => (~InFlight(tasks[j]) \/ tasks[j].phase = "done")

\* ---- C7 ------------------------------------------------------------------
Threw(t) == Len(Pick(t.tr, {"err"}))
Oks(t) == Len(Pick(t.tr, {"ok"}))
Registered(s) == Len(ArrOf(typeHandlers[SigType(s)])) + Len(anyHandlers)

\* C7 as claimed: for every bus configuration, when emit(s) resolves emitted is
\* greater than before the call, handled is its value before the call plus the
\* handlers registered for s (typed for its type, and any; counted at the call
\* or at the resolution) minus those that threw, and errors is its value before
\* plus those that threw.
C7_Original ==
  [][\A k \in DOMAIN tasks : (tasks[k].kind = "emit" /\ Resolves(k)) =>
       /\ emittedCount' > tasks[k].m0
       /\ \E n \in {tasks[k].reg0, Registered(tasks[k].sig)} :
            handledCount' = tasks[k].h0 + n - Threw(tasks[k])
       /\ errorCount' = tasks[k].e0 + Threw(tasks[k])]_vars

\* between the call of task k and now: no other call was in flight, nothing
\* subscribed or unsubscribed, and every middleware entered called next()
Undisturbed(k) ==
  /\ tasks[k].solo /\ k = Len(tasks)
  /\ tasks[k].r0 = Len(regs) /\ tasks[k].u0 = Removed(regs)
  /\ ~HasEv(tasks[k].tr, "ret")

\* C7 (amended): when emit(s) resolves emitted is greater than before the call.
\* If no other emit or replay was in flight meanwhile, handled has grown by the
\* handler invocations for s that resolved and errors by those that threw. If
\* moreover no handler was subscribed or unsubscribed meanwhile and every
\* middleware called next(), the invocations are the handlers registered for s
\* (typed for its type, and any), one each.
C7_Stats ==
  [][\A k \in DOMAIN tasks : (tasks[k].kind = "emit" /\ Resolves(k)) =>
       /\ emittedCount' > tasks[k].m0
       /\ (tasks[k].solo /\ k = Len(tasks)) =>
            /\ handledCount' = tasks[k].h0 + Oks(tasks[k])
            /\ errorCount' = tasks[k].e0 + Threw(tasks[k])
       /\ Undisturbed(k) =>
            /\ tasks[k].reg0 = Registered(tasks[k].sig)
            /\ Oks(tasks[k]) + Threw(tasks[k]) = Registered(tasks[k].sig)
            /\ handledCount' = tasks[k].h0 + Registered(tasks[k].sig) - Threw(tasks[k])]_vars

\* an undisturbed emit about to resolve, behind a middleware, after one of its
\* two handlers resolved and the other threw, on a bus that had counted before
C7_Witness ==
  \E k \in DOMAIN tasks :
    /\ tasks[k].kind = "emit" /\ tasks[k].pc = "ack" /\ Undisturbed(k)
    /\ tasks[k].chain # <<>> /\ tasks[k].h0 > 0
    /\ HasEv(tasks[k].tr, "ok") /\ HasEv(tasks[k].tr, "err")

\* ---- C8 ------------------------------------------------------------------
\* C8: however often the unsubscribe function returned by on() or onAny() is
\* called, its calls remove one registration in total, also when the same
\* handler function was registered more than once.
C8_UnsubOnce == \A r \in DOMAIN regs : regs[r].removed <= 1

\* ---- C9 ------------------------------------------------------------------
\* C9: when unsubscribe functions are called while a signal is dispatched, the
\* dispatch is unaffected: every handler registered when runHandlers began is
\* invoked exactly once, in registration order (typed, then any).
C9_DispatchUnaffected ==
  \A k \in DOMAIN tasks :
    LET t == tasks[k]
        snap == t.snapT \o t.snapA
        mine == SelectSeq(Calls(t), LAMBDA ev : ev.n \in {snap[p].rid : p \in 1..Len(snap)})
    IN (InFlight(t) /\ t.phase = "done") => Ns(mine) = [p \in 1..Len(snap) |-> snap[p].rid]

\* ---- C10 -----------------------------------------------------------------
\* what a replay call did so far
Replayed(t) ==
  LET io == Pick(t.tr, {"send", "ack"})
      sends == SigsOf(Pick(t.tr, {"send"}))
  IN /\ ~HasEv(t.tr, "save") /\ ~HasEv(t.tr, "saved")
     /\ emittedCount = t.m0
     /\ t.pc # "fetch" => /\ sends \o t.todo = t.got
                          /\ t.n = Len(t.got)
     /\ \A p \in 1..Len(io) : /\ io[p].e = (IF p % 2 = 1 THEN "send" ELSE "ack")
                              /\ p % 2 = 0 => io[p].sig = io[p - 1].sig
     /\ \A p \in 1..Len(t.tr) : t.tr[p].e = "ack" =>
          /\ \A q \in 1..(p - 1) : t.tr[q].sig = t.tr[p].sig => t.tr[q].e # "ack"
          /\ Settled(SelectSeq(SubSeq(t.tr, 1, p - 1), LAMBDA ev : ev.sig = t.tr[p].sig))
          /\ \A q \in (p + 1)..Len(t.tr) : t.tr[q].sig # t.tr[p].sig

\* C10: replay dispatches each signal returned by getUnacked through the
\* transport in the returned order, calls markAcked for each after its dispatch
\* and before the next signal's dispatch, never calls save, leaves emitted
\* unchanged, and resolves to the number of signals returned (0 with the no-op
\* store).
C10_Replay ==
  [][\A k \in DOMAIN tasks' : tasks'[k].kind = "replay" =>
       /\ InFlight(tasks'[k]) => Replayed(tasks[k])'
       /\ (k \in DOMAIN tasks /\ Resolves(k)) =>
            /\ tasks[k].todo = <<>>
            /\ tasks'[k].n = (IF tasks[k].pc = "fetch" THEN Len(GetUnacked) ELSE Len(tasks[k].got))
            /\ cfg = "default" => tasks'[k].n = 0
            /\ emittedCount' = tasks[k].m0]_vars

\* a replay of two stored signals about to ack the second, a handler ran for each
C10_Witness ==
  \E k \in DOMAIN tasks :
    /\ tasks[k].kind = "replay" /\ tasks[k].pc = "ack"
    /\ tasks[k].got = Stored /\ tasks[k].todo = <<>>
    /\ \A s \in RangeOf(Stored) : \E p \in 1..Len(tasks[k].tr) :
         tasks[k].tr[p].e = "ok" /\ tasks[k].tr[p].sig = s

\* ---- C11 -----------------------------------------------------------------
\* an emit called after a clear(), with nothing registered since that clear
AfterClear(t) ==
  /\ t.kind = "emit" /\ InFlight(t)
  /\ t.c0 >= 1 /\ t.c0 = clears /\ Removed(regs) = 0
  /\ Stats.handlers = 0 /\ Stats.anyHandlers = 0 /\ Stats.middleware = 0

\* C11: clear() removes every typed handler, any-handler and middleware: after
\* it stats() shows handlers, anyHandlers and middleware 0, the counters
\* emitted, handled and errors are what they were, and an emit made afterwards
\* (nothing registered since) enters no middleware and invokes no handler.
C11_Clear ==
  [][/\ clears' # clears =>
          /\ Stats'.handlers = 0 /\ Stats'.anyHandlers = 0 /\ Stats'.middleware = 0
          /\ Stats'.emitted = Stats.emitted /\ Stats'.handled = Stats.handled
          /\ Stats'.errors = Stats.errors
     /\ \A k \in DOMAIN tasks' : AfterClear(tasks[k])' =>
          /\ ~HasEv(tasks'[k].tr, "call") /\ ~HasEv(tasks'[k].tr, "pre")
          /\ handledCount' = tasks'[k].h0 /\ errorCount' = tasks'[k].e0]_vars

\* after handlers ran and a middleware was used, clear() was called, and an emit
\* made after it is about to be acked
C11_Witness ==
  \E k \in DOMAIN tasks :
    /\ AfterClear(tasks[k]) /\ tasks[k].pc = "ack"
    /\ handledCount > 0 /\ nextMw > 1 /\ Len(regs) = MaxRegs

\* ==== the clocks ============================================================
\* An action is again one synchronous run: a call on the clock, a timer
\* callback up to its first await, or the resumption of a callback after the
\* handler it awaits has settled.  The operators below work on the machine
\* m = [c: closure state, tm: pending timers, cy: async callbacks in flight,
\* lg: history] and return the machine after the code has run.
Max(a, b) == IF a >= b THEN a ELSE b
Abs(a) == IF a >= 0 THEN a ELSE 0 - a
RemoveAt(q, i) == [p \in 1..(Len(q) - 1) |-> IF p < i THEN q[p] ELSE q[p + 1]]

Machine == [c |-> clock, tm |-> timers, cy |-> cycles, lg |-> clog, fd |-> fed]

\* the number of successful start() calls so far
Epoch(lg) == Len(SelectSeq(lg, LAMBDA ev : ev.e = "start"))

\* one entry of the history
CEv(e, lg, f) ==
  [e |-> e, t |-> now, ep |-> Epoch(lg), seq |-> f.seq, ts |-> f.ts, reason |-> f.reason,
   drift |-> f.drift, h |-> f.h, n |-> f.n, end |-> f.end, r |-> "", prev |-> f.prev,
   warn |-> f.warn]
NoTick == [seq |-> 0, ts |-> 0, reason |-> "", drift |-> 0, h |-> "", n |-> 0, end |-> 0 - 1,
           prev |-> 0, warn |-> FALSE]

\* timer = setTimeout(callback, delay): the variable `timer` now names the new
\* timer; a timer it named before stays pending
SetTimer(m, delay) ==
  [m EXCEPT !.tm = Append([p \in 1..Len(m.tm) |-> [m.tm[p] EXCEPT !.cur = FALSE]],
                          [due |-> now + delay, cur |-> TRUE, ep |-> Epoch(m.lg)])]

\* clearTimeout(timer); timer = null
ClearTimer(m) == [m EXCEPT !.tm = SelectSeq(m.tm, LAMBDA x : ~x.cur)]

\* a frame: an async callback of the clock awaiting the handler
\*   pol: the code that awaits ("block", "drop", "adaptive", "test", "bridge")
\*   reason: that of the tick being handled; fired: catchUps / fired / i of its loop
\*   drift: `drift` of the adaptive callback; start: Date.now() before the handler
\*   call: the history entry of the invocation
\*   op, left: the test clock's call and the iterations left in its loop
Frame(pol) ==
  [pol |-> pol, op |-> "", reason |-> "", fired |-> 0, left |-> 0, drift |-> 0, start |-> 0, call |-> 0]

\* (mutant) a tick at or below the threshold leaves consecutiveHighDrift alone
FireTickCallNoReset(m, f, reason, drift) ==
  LET c == m.c
      high == Abs(drift) * 10 > IntervalMs * 8
      c1 == [c EXCEPT !.seq = c.seq + 1, !.tickCount = c.tickCount + 1, !.lastTickAt = now,
                      !.totalDriftMs = c.totalDriftMs + Abs(drift),
                      !.consecutiveHighDrift = IF high THEN c.consecutiveHighDrift + 1 ELSE c.consecutiveHighDrift]
      ev == CEv("call", m.lg, [NoTick EXCEPT !.seq = c.seq, !.ts = now, !.reason = reason,
                                             !.drift = drift, !.h = c.handler,
                                             !.prev = f.call,
                                             !.warn = high /\ c1.consecutiveHighDrift >= DRIFT_WARN_COUNT])
  IN [m EXCEPT !.c = c1, !.lg = Append(m.lg, ev),
               !.cy = Append(m.cy, [f EXCEPT !.reason = reason, !.start = now,
                                             !.call = Len(m.lg) + 1])]

\* fireTick up to `await handler(tick)` (interval.ts 60-88); the frame f starts
\* to wait.  Called with a handler registered.
FireTickCall(m, f, reason, drift) ==
  LET c == m.c
      high == Abs(drift) * 10 > IntervalMs * 8
      c1 == [c EXCEPT !.seq = c.seq + 1, !.tickCount = c.tickCount + 1, !.lastTickAt = now,
                      !.totalDriftMs = c.totalDriftMs + Abs(drift),
                      !.consecutiveHighDrift = IF high THEN c.consecutiveHighDrift + 1 ELSE 0]
      ev == CEv("call", m.lg, [NoTick EXCEPT !.seq = c.seq, !.ts = now, !.reason = reason,
                                             !.drift = drift, !.h = c.handler,
                                             !.prev = f.call,
                                             !.warn = high /\ c1.consecutiveHighDrift >= DRIFT_WARN_COUNT])
  IN [m EXCEPT !.c = c1, !.lg = Append(m.lg, ev),
               !.cy = Append(m.cy, [f EXCEPT !.reason = reason, !.start = now,
                                             !.call = Len(m.lg) + 1])]

\* fireTick after the handler settled (interval.ts 89-100), outcome r
FireTickDone(m, f, r) ==
  LET c == m.c
      elapsed == now - f.start
  IN [m EXCEPT !.c = [c EXCEPT !.errors = IF r = "throw" THEN c.errors + 1 ELSE c.errors,
                               !.totalHandlerMs = c.totalHandlerMs + elapsed,
                               !.maxHandlerMs = Max(c.maxHandlerMs, elapsed)],
               !.lg = [m.lg EXCEPT ![f.call].end = now, ![f.call].r = r]]

\* droppedTicks += n, by the busy check ("") or by a clamp ("clamp")
DroppedBy(m, n, why) ==
  IF n = 0 THEN m
  ELSE [m EXCEPT !.c.droppedTicks = m.c.droppedTicks + n,
                 !.lg = Append(m.lg, CEv("drop", m.lg, [NoTick EXCEPT !.n = n, !.reason = why]))]

\* droppedTicks++ of the busy check (interval.ts 125-128)
Dropped(m, n) == DroppedBy(m, n, "")

\* (mutant) the clamp skips ahead without counting what it skipped
DropClampUncounted(m) ==
  IF m.c.nextIdealTime < now
  THEN LET skipped == (now - m.c.nextIdealTime) \div IntervalMs
       IN [m EXCEPT !.c.nextIdealTime = @ + skipped * IntervalMs]
  ELSE m

\* scheduleBlock (interval.ts 103-109)
ScheduleBlock(m) == IF ~m.c.running THEN m ELSE SetTimer(m, IntervalMs)

\* scheduleDrop / scheduleAdaptive up to setTimeout (interval.ts 111-118, 159-166)
ScheduleFixedRate(m) ==
  IF ~m.c.running THEN m
  ELSE LET nit == IF m.c.nextIdealTime # 0 THEN m.c.nextIdealTime ELSE now + IntervalMs
       IN SetTimer([m EXCEPT !.c.nextIdealTime = nit], Max(0, nit - now))

\* ---- the interval clock: the three schedulers ------------------------------
\* block: the timer callback (interval.ts 105-108)
BlockFire(m) ==
  IF m.c.handler = "" THEN ScheduleBlock(m)
  ELSE FireTickCall(m, Frame("block"), "interval", 0)

\* drop: the clamp after the catch-up loop (interval.ts 144-149)
DropClamp(m) ==
  IF m.c.nextIdealTime < now
  THEN LET skipped == (now - m.c.nextIdealTime) \div IntervalMs
       IN DroppedBy([m EXCEPT !.c.nextIdealTime = @ + skipped * IntervalMs], skipped, "clamp")
  ELSE m

RECURSIVE DropLoop(_, _)
\* (mutant) the catch-up loop lets one more catch-up tick through
DropLoopOver(m, f) ==
  IF m.c.running /\ m.c.nextIdealTime <= now /\ f.fired < MaxCatchUpTicks + 1
       /\ m.c.handler # ""
  THEN FireTickCall([m EXCEPT !.c.nextIdealTime = @ + IntervalMs], f, "catchup",
                    now - m.c.nextIdealTime)
  ELSE DropClamp(m)

\* drop: the catch-up loop of done() (interval.ts 136-142), f.fired is catchUps
DropLoop(m, f) ==
  IF m.c.running /\ m.c.nextIdealTime <= now /\ f.fired < MaxCatchUpTicks
  THEN LET catchUpDrift == now - m.c.nextIdealTime
           m1 == [m EXCEPT !.c.nextIdealTime = @ + IntervalMs]
       IN IF m1.c.handler = "" THEN DropLoop(m1, [f EXCEPT !.fired = @ + 1])
          ELSE FireTickCall(m1, f, "catchup", catchUpDrift)
  ELSE DropClamp(m)

\* (mutant) done() leaves busy set when the handler has settled
DropDoneKeepsBusy(m, f) == DropLoop(m, [f EXCEPT !.fired = 0])

\* drop: done() after `await fireTick("interval", drift)` (interval.ts 133-136)
DropDone(m, f) == DropLoop([m EXCEPT !.c.busy = FALSE], [f EXCEPT !.fired = 0])

\* drop: the timer callback (interval.ts 118-156)
DropFire(m) ==
  LET drift == now - m.c.nextIdealTime
      m1 == ScheduleFixedRate([m EXCEPT !.c.nextIdealTime = @ + IntervalMs])
  IN IF m1.c.busy THEN Dropped(m1, 1)
     ELSE LET m2 == [m1 EXCEPT !.c.busy = TRUE]
          IN IF m2.c.handler = "" THEN DropDone(m2, Frame("drop"))
             ELSE FireTickCall(m2, Frame("drop"), "interval", drift)

\* (mutant) the cycle ends without the clamp
AdaptiveEndNoClamp(m) ==
  ScheduleFixedRate([m EXCEPT !.c.nextIdealTime = now + Max(0, IntervalMs - m.c.accumulator)])

\* adaptive: clamp, next ideal time, next cycle (interval.ts 181-189)
AdaptiveEnd(m) ==
  LET skipped == IF m.c.accumulator >= IntervalMs THEN m.c.accumulator \div IntervalMs ELSE 0
      m1 == DroppedBy([m EXCEPT !.c.accumulator = @ - skipped * IntervalMs], skipped, "clamp")
  IN ScheduleFixedRate([m1 EXCEPT !.c.nextIdealTime = now + Max(0, IntervalMs - m1.c.accumulator)])

\* adaptive: the loop of the timer callback (interval.ts 172-179)
RECURSIVE AdaptiveLoop(_, _)
AdaptiveLoop(m, f) ==
  IF m.c.accumulator >= IntervalMs /\ f.fired < MaxCatchUpTicks + 1
  THEN IF ~m.c.running THEN m
       ELSE LET m1 == [m EXCEPT !.c.accumulator = @ - IntervalMs]
            IN IF m1.c.handler = "" THEN AdaptiveLoop(m1, [f EXCEPT !.fired = @ + 1])
               ELSE FireTickCall(m1, f, IF f.fired = 0 THEN "interval" ELSE "catchup",
                                 IF f.fired = 0 THEN f.drift ELSE 0)
  ELSE AdaptiveEnd(m)

\* adaptive: the timer callback (interval.ts 166-173)
AdaptiveFire(m) ==
  LET drift == now - m.c.nextIdealTime
  IN AdaptiveLoop([m EXCEPT !.c.accumulator = @ + IntervalMs + drift],
                  [Frame("adaptive") EXCEPT !.drift = drift])

\* (mutant) a handler error leaves fireTick and ends the callback that awaited it
IntervalResumeThrows(m, f, r) ==
  LET m1 == FireTickDone(m, f, r)
  IN CASE r = "throw" -> m1
       [] f.pol = "block" -> ScheduleBlock(m1)
       [] f.pol = "drop" -> IF f.reason = "interval" THEN DropDone(m1, f)
                            ELSE DropLoop(m1, [f EXCEPT !.fired = @ + 1])
       [] f.pol = "adaptive" -> AdaptiveLoop(m1, [f EXCEPT !.fired = @ + 1])

\* the code after `await fireTick(...)` of frame f, the handler settled with r
IntervalResume(m, f, r) ==
  LET m1 == FireTickDone(m, f, r)
  IN CASE f.pol = "block" -> ScheduleBlock(m1)
       [] f.pol = "drop" -> IF f.reason = "interval" THEN DropDone(m1, f)
                            ELSE DropLoop(m1, [f EXCEPT !.fired = @ + 1])
       [] f.pol = "adaptive" -> AdaptiveLoop(m1, [f EXCEPT !.fired = @ + 1])

\* schedulers[backpressure]() (interval.ts 193-197, 211)
Schedule(m) ==
  IF clockKind = "block" THEN ScheduleBlock(m) ELSE ScheduleFixedRate(m)

\* ---- the test clock and the bridge clock -----------------------------------
\* fireSingleTick up to `await handler(tick)` (test-clock.ts 47-61)
FireSingleCall(m, f) ==
  LET c == m.c
      ev == CEv("call", m.lg, [NoTick EXCEPT !.seq = c.seq, !.ts = c.virtualTime,
                                             !.reason = "manual", !.h = c.handler,
                                             !.prev = f.call, !.n = f.left])
  IN [m EXCEPT !.c = [c EXCEPT !.seq = c.seq + 1, !.tickCount = c.tickCount + 1,
                               !.lastTickAt = c.virtualTime],
               !.lg = Append(m.lg, ev),
               !.cy = Append(m.cy, [f EXCEPT !.reason = "manual", !.start = now,
                                             !.call = Len(m.lg) + 1])]

\* the loops of tick and advanceBy (test-clock.ts 117-120, 131-134): f.left
\* iterations remain
RECURSIVE TestLoop(_, _)
TestLoop(m, f) ==
  IF f.left = 0 THEN m
  ELSE LET m1 == [m EXCEPT !.c.virtualTime = @ + IntervalMs]
           f1 == [f EXCEPT !.left = @ - 1]
       IN IF m1.c.handler = "" THEN TestLoop(m1, f1) ELSE FireSingleCall(m1, f1)

\* (mutant) the loop of tick and advanceBy ends after its first invocation
TestResumeOnce(m, f, r) ==
  IF r = "throw"
  THEN [m EXCEPT !.c.errors = @ + 1, !.lg = [m.lg EXCEPT ![f.call].end = now, ![f.call].r = r],
                 !.fd.sum = 0 - 1]
  ELSE FireTickDone(m, f, r)

\* (mutant) fireSingleTick counts a handler error and swallows it, as fireTick of
\* the interval clock does
TestResumeSwallows(m, f, r) ==
  IF r = "throw"
  THEN TestLoop([m EXCEPT !.c.errors = @ + 1,
                          !.lg = [m.lg EXCEPT ![f.call].end = now, ![f.call].r = r],
                          !.fd.sum = 0 - 1], f)
  ELSE TestLoop(FireTickDone(m, f, r), f)

\* fireSingleTick after the handler settled (test-clock.ts 62-71), then the loop;
\* a handler error is counted and rethrown: the call rejects
TestResume(m, f, r) ==
  IF r = "throw"
  THEN [m EXCEPT !.c.errors = @ + 1, !.lg = [m.lg EXCEPT ![f.call].end = now, ![f.call].r = r],
                 !.fd.sum = 0 - 1]
  ELSE TestLoop(FireTickDone(m, f, r), f)

\* the .then callbacks of push (bridge.ts 99-112)
BridgeSettled(m, f, r) == FireTickDone(m, f, r)

\* push() on a running bridge clock (bridge.ts 75-117); out is what the handler
\* does: returns, throws, or returns a pending promise
BridgePush(m, out) ==
  LET c == m.c
      ev == CEv("call", m.lg, [NoTick EXCEPT !.seq = c.seq, !.ts = now, !.reason = "bridge",
                                             !.h = c.handler])
      m1 == [m EXCEPT !.c = [c EXCEPT !.seq = c.seq + 1, !.tickCount = c.tickCount + 1,
                                      !.lastTickAt = now],
                      !.lg = Append(m.lg, ev)]
      f == [Frame("bridge") EXCEPT !.reason = "bridge", !.start = now, !.call = Len(m.lg) + 1]
  IN IF out = "async" THEN [m1 EXCEPT !.cy = Append(m1.cy, f)]
     ELSE BridgeSettled(m1, f, IF out = "throws" THEN "throw" ELSE "ok")

\* ---- the clocks: actions -------------------------------------------------
Interval == {"block", "drop", "adaptive"}
Kinds == Interval \cup {"test", "bridge"}

\* the machine after the step, the call that was made
Apply(m, op, err) ==
  /\ clock' = m.c /\ timers' = m.tm /\ cycles' = m.cy /\ clog' = m.lg /\ fed' = m.fd
  /\ lastCall' = (IF op = "" THEN lastCall ELSE [op |-> op, err |-> err, par |-> 1 - lastCall.par,
                                                      was |-> clock.running])
  /\ UNCHANGED <<busVars, clockKind, now>>

\* resetStats (interval.ts 49-58; bridge.ts 36-40)
ResetStats(c) ==
  [c EXCEPT !.tickCount = 0, !.droppedTicks = 0, !.errors = 0, !.totalHandlerMs = 0,
            !.totalDriftMs = 0, !.lastTickAt = 0, !.maxHandlerMs = 0, !.consecutiveHighDrift = 0]

\* (mutant) start() keeps counting _seq from where the last epoch left it
StartedKeepsSeq(m, h) ==
  LET c == [m.c EXCEPT !.handler = h, !.running = TRUE]
      c1 == IF clockKind = "test" THEN c
            ELSE [ResetStats(c) EXCEPT !.nextIdealTime = 0, !.accumulator = 0, !.busy = FALSE]
      m1 == [m EXCEPT !.c = c1, !.lg = Append(m.lg, CEv("start", Append(m.lg, [e |-> "start"]),
                                                     [NoTick EXCEPT !.h = h]))]
  IN IF clockKind \in Interval THEN Schedule(m1) ELSE m1

\* start(h) of the three clocks (interval.ts 200-212, test-clock.ts 75-81, bridge.ts 29-41)
Started(m, h) ==
  LET c == [m.c EXCEPT !.handler = h, !.running = TRUE]
      c1 == IF clockKind = "test" THEN c
            ELSE [ResetStats(c) EXCEPT !.seq = 0, !.nextIdealTime = 0, !.accumulator = 0, !.busy = FALSE]
      m1 == [m EXCEPT !.c = c1, !.lg = Append(m.lg, CEv("start", Append(m.lg, [e |-> "start"]),
                                                     [NoTick EXCEPT !.h = h]))]
  IN IF clockKind \in Interval THEN Schedule(m1) ELSE m1

\* (mutant) start() on a running clock registers the new handler and returns
ClockStartReplaces(h) ==
  IF clock.running
  THEN Apply([Machine EXCEPT !.c.handler = h], "start", "")
  ELSE /\ Epoch(clog) < MaxStarts
       /\ h = (IF Epoch(clog) = 0 THEN "h1" ELSE "h2")
       /\ Apply(Started(Machine, h), "start", "")

ClockStart(h) ==
  IF clock.running
  THEN Apply(Machine, "start", "Clock already running")
  ELSE /\ Epoch(clog) < MaxStarts
       /\ h = (IF Epoch(clog) = 0 THEN "h1" ELSE "h2")
       /\ Apply(Started(Machine, h), "start", "")

\* (mutant) stop() of the test clock starts _seq and the virtual time over
StoppedRewinds(m) ==
  LET c == [m.c EXCEPT !.running = FALSE, !.handler = ""]
      m1 == [m EXCEPT !.lg = IF m.c.running THEN Append(m.lg, CEv("stop", m.lg, NoTick)) ELSE m.lg]
  IN CASE clockKind \in Interval -> ClearTimer([m1 EXCEPT !.c = [c EXCEPT !.busy = FALSE]])
       [] clockKind = "test" -> [m1 EXCEPT !.c = [c EXCEPT !.accumulator = 0, !.seq = 0,
                                                           !.virtualTime = 0], !.fd.sum = 0 - 1]
       [] clockKind = "bridge" -> [m1 EXCEPT !.c = c]

\* stop() of the three clocks (interval.ts 214-222, test-clock.ts 83-87, bridge.ts 43-46)
Stopped(m) ==
  LET c == [m.c EXCEPT !.running = FALSE, !.handler = ""]
      m1 == [m EXCEPT !.lg = IF m.c.running THEN Append(m.lg, CEv("stop", m.lg, NoTick)) ELSE m.lg]
  IN CASE clockKind \in Interval -> ClearTimer([m1 EXCEPT !.c = [c EXCEPT !.busy = FALSE]])
       [] clockKind = "test" -> [m1 EXCEPT !.c = [c EXCEPT !.accumulator = 0], !.fd.sum = 0 - 1]
       [] clockKind = "bridge" -> [m1 EXCEPT !.c = c]

\* (mutant) stop() on a clock that is not running throws
ClockStopStrict ==
  /\ clockKind \in Kinds
  /\ IF clock.running THEN Apply(Stopped(Machine), "stop", "")
     ELSE Apply(Machine, "stop", "Clock not running")

ClockStop ==
  /\ clockKind \in Kinds
  /\ Apply(Stopped(Machine), "stop", "")

\* a pending timer fires: timers fire in the order they are due, not before they
\* are due, and the callback runs up to its first await
TimerFire(i) ==
  /\ i \in DOMAIN timers /\ timers[i].due <= now
  /\ \A j \in DOMAIN timers : timers[j].due > timers[i].due \/ (timers[j].due = timers[i].due /\ j >= i)
  /\ Len(cycles) < MaxCycles
  /\ LET late == IF timers[i].due < now THEN <<CEv("late", clog, NoTick)>> ELSE <<>>
         m == [Machine EXCEPT !.tm = RemoveAt(timers, i), !.lg = clog \o late]
     IN Apply(CASE clockKind = "block" -> BlockFire(m)
                [] clockKind = "drop" -> DropFire(m)
                [] clockKind = "adaptive" -> AdaptiveFire(m), "", "")

\* the handler awaited by frame i settles, the code after the await runs
HandlerSettled(i, r) ==
  /\ i \in DOMAIN cycles
  /\ LET f == cycles[i]
         m == [Machine EXCEPT !.cy = RemoveAt(cycles, i)]
     IN CASE f.pol \in Interval -> Apply(IntervalResume(m, f, r), "", "")
          [] f.pol = "bridge" -> Apply(BridgeSettled(m, f, r), "", "")
          [] f.pol = "test" ->
               LET m1 == TestResume(m, f, r)
               IN Apply(m1, IF Len(m1.cy) = Len(m.cy) THEN f.op ELSE "",
                        IF r = "throw" THEN "handler error" ELSE "")

\* time passes; a timer is at most MaxLate late.  The test clock and the bridge
\* clock read the time only to measure how long a handler took.
Elapse ==
  /\ IF clockKind \in Interval THEN now < MaxTime ELSE cycles # <<>> /\ now < MaxWait
  /\ \A j \in DOMAIN timers : now + 1 <= timers[j].due + MaxLate
  /\ now' = now + 1
  /\ UNCHANGED <<busVars, clockKind, clock, timers, cycles, clog, lastCall, fed>>

\* time passes on a host that is busy for MaxLate at a time and whose handlers
\* settle in the millisecond they were invoked; a timer is at most MaxLate late
ElapseIdle ==
  /\ clockKind \in Interval /\ cycles = <<>> /\ now + MaxLate <= MaxDriftTime
  /\ \A j \in DOMAIN timers : now + MaxLate <= timers[j].due + MaxLate
  /\ now' = now + MaxLate
  /\ UNCHANGED <<busVars, clockKind, clock, timers, cycles, clog, lastCall, fed>>

\* handler invocations made so far
CallsMade == Len(SelectSeq(clog, LAMBDA ev : ev.e = "call"))

\* a call of the test clock returns at once or starts to wait for the handler
TestApply(m, op) ==
  Apply([m EXCEPT !.fd.conc = fed.conc \/ cycles # <<>>], IF Len(m.cy) = Len(cycles) THEN op ELSE "", "")

\* (mutant) tick does not look at _running
TestTickUnchecked(count) ==
  /\ clockKind = "test"
  /\ CallsMade + count <= MaxPushes
  /\ TestApply(TestLoop([Machine EXCEPT !.fd.sum = 0 - 1],
                        [Frame("test") EXCEPT !.op = "tick", !.left = count]), "tick")

\* tick(count) (test-clock.ts 113-121)
TestTick(count) ==
  /\ clockKind = "test"
  /\ IF ~clock.running THEN Apply(Machine, "tick", "Clock not running")
     ELSE /\ CallsMade + count <= MaxPushes
          /\ TestApply(TestLoop([Machine EXCEPT !.fd.sum = 0 - 1],
                                 [Frame("test") EXCEPT !.op = "tick", !.left = count]), "tick")

\* (mutant) advanceBy forgets the residual below intervalMs
TestAdvanceByNoCarry(ms) ==
  /\ clockKind = "test"
  /\ IF ~clock.running THEN Apply(Machine, "advanceBy", "Clock not running")
     ELSE LET acc == clock.accumulator + ms
              ticksToFire == acc \div IntervalMs
              m == [Machine EXCEPT !.c.accumulator = 0,
                                   !.fd.sum = IF fed.sum >= 0 THEN fed.sum + ms ELSE fed.sum]
          IN /\ CallsMade + ticksToFire <= MaxPushes
             /\ TestApply(TestLoop(m, [Frame("test") EXCEPT !.op = "advanceBy", !.left = ticksToFire]),
                          "advanceBy")

\* (mutant) advanceBy leaves the fired intervals in the accumulator
TestAdvanceByKeepsFired(ms) ==
  /\ clockKind = "test"
  /\ IF ~clock.running THEN Apply(Machine, "advanceBy", "Clock not running")
     ELSE LET acc == clock.accumulator + ms
              ticksToFire == acc \div IntervalMs
              m == [Machine EXCEPT !.c.accumulator = acc,
                                   !.fd.sum = IF fed.sum >= 0 THEN fed.sum + ms ELSE fed.sum]
          IN /\ CallsMade + ticksToFire <= MaxPushes
             /\ TestApply(TestLoop(m, [Frame("test") EXCEPT !.op = "advanceBy", !.left = ticksToFire]),
                          "advanceBy")

\* advanceBy(ms) (test-clock.ts 123-135)
TestAdvanceBy(ms) ==
  /\ clockKind = "test"
  /\ IF ~clock.running THEN Apply(Machine, "advanceBy", "Clock not running")
     ELSE LET acc == clock.accumulator + ms
              ticksToFire == acc \div IntervalMs
              m == [Machine EXCEPT !.c.accumulator = acc - ticksToFire * IntervalMs,
                                   !.fd.sum = IF fed.sum >= 0 THEN fed.sum + ms ELSE fed.sum]
          IN /\ CallsMade + ticksToFire <= MaxPushes
             /\ TestApply(TestLoop(m, [Frame("test") EXCEPT !.op = "advanceBy", !.left = ticksToFire]),
                          "advanceBy")

\* (mutant) flush fires a whole-interval tick and keeps the residual
TestFlushWholeTick ==
  /\ clockKind = "test"
  /\ IF ~clock.running THEN Apply(Machine, "flush", "Clock not running")
     ELSE IF clock.accumulator > 0
          THEN LET m == [Machine EXCEPT !.c.virtualTime = @ + IntervalMs,
                                        !.fd.sum = 0 - 1]
                   f == [Frame("test") EXCEPT !.op = "flush"]
               IN /\ CallsMade < MaxPushes
                  /\ TestApply(IF m.c.handler = "" THEN m ELSE FireSingleCall(m, f), "flush")
          ELSE Apply(Machine, "flush", "")

\* flush() (test-clock.ts 137-147)
TestFlush ==
  /\ clockKind = "test"
  /\ IF ~clock.running THEN Apply(Machine, "flush", "Clock not running")
     ELSE IF clock.accumulator > 0
          THEN LET m == [Machine EXCEPT !.c.virtualTime = @ + clock.accumulator, !.c.accumulator = 0,
                                        !.fd.sum = 0 - 1]
                   f == [Frame("test") EXCEPT !.op = "flush"]
               IN /\ CallsMade < MaxPushes
                  /\ TestApply(IF m.c.handler = "" THEN m ELSE FireSingleCall(m, f), "flush")
          ELSE Apply(Machine, "flush", "")

\* reset() (test-clock.ts 149-154)
TestReset ==
  /\ clockKind = "test"
  /\ Apply([Machine EXCEPT !.c = [ResetStats(clock) EXCEPT !.virtualTime = 0, !.seq = 0,
                                                            !.accumulator = 0],
                            !.fd = [sum |-> 0, base |-> CallsMade,
                                    conc |-> fed.conc \/ cycles # <<>>]], "reset", "")

\* (mutant) push() does nothing while an asynchronous handler has not settled
PushBusy(out) ==
  /\ clockKind = "bridge"
  /\ IF ~clock.running \/ clock.handler = "" \/ cycles # <<>> THEN Apply(Machine, "push", "")
     ELSE /\ CallsMade < MaxPushes
          /\ out = "async" => Len(cycles) < MaxCycles
          /\ Apply(BridgePush(Machine, out), "push", "")

\* (mutant) push() lets the error of a handler that throws synchronously escape
PushThrows(out) ==
  /\ clockKind = "bridge"
  /\ IF ~clock.running \/ clock.handler = "" THEN Apply(Machine, "push", "")
     ELSE /\ CallsMade < MaxPushes
          /\ out = "async" => Len(cycles) < MaxCycles
          /\ Apply(BridgePush(Machine, out), "push", IF out = "throws" THEN "handler error" ELSE "")

\* push() (bridge.ts 72-118)
Push(out) ==
  /\ clockKind = "bridge"
  /\ IF ~clock.running \/ clock.handler = "" THEN Apply(Machine, "push", "")
     ELSE /\ CallsMade < MaxPushes
          /\ out = "async" => Len(cycles) < MaxCycles
          /\ Apply(BridgePush(Machine, out), "push", "")

\* stats() of the clocks (interval.ts 228-238, test-clock.ts 93-103, bridge.ts
\* 52-62); an average is the pair <<total, count>> of the division
Avg(total, count) == IF count > 0 THEN <<total, count>> ELSE <<0, 1>>
ClockStats ==
  [tickCount |-> clock.tickCount,
   droppedTicks |-> IF clockKind \in Interval THEN clock.droppedTicks ELSE 0,
   errors |-> clock.errors,
   avgHandlerMs |-> Avg(clock.totalHandlerMs, clock.tickCount),
   avgDriftMs |-> IF clockKind \in Interval THEN Avg(clock.totalDriftMs, clock.tickCount) ELSE <<0, 1>>,
   lastTickAt |-> clock.lastTickAt,
   maxHandlerMs |-> clock.maxHandlerMs]

\* SpecClock: one clock (an interval clock with one of the three policies, a
\* test clock or a bridge clock) whose owner starts and stops it at any time and
\* whose handler takes any time to settle; the owner of a test clock awaits each
\* tick, advanceBy and flush before it makes the next call
NextClock ==
  \/ \E h \in Handlers : ClockStart(h)
  \/ ClockStop
  \/ \E i \in 1..(MaxCycles + 1) : TimerFire(i)
  \/ \E i \in 1..MaxCycles, r \in {"ok", "throw"} : HandlerSettled(i, r)
  \/ Elapse
  \/ cycles = <<>> /\ \E count \in 1..2 : TestTick(count)
  \/ cycles = <<>> /\ \E ms \in {1, 3} : TestAdvanceBy(ms)
  \/ cycles = <<>> /\ TestFlush
  \/ cycles = <<>> /\ TestReset
  \/ \E out \in {"returns", "throws", "async"} : Push(out)

InitClock == Boot("default", <<>>) /\ \E kd \in Kinds : ClockBoot(kd)

SpecClock == InitClock /\ [][NextClock]_vars

\* SpecTestConc: a test clock whose owner does not await tick, advanceBy and flush
\* (it resets the clock between calls only); the time the handlers take is not
\* followed
NextTestConc ==
  \/ \E h \in Handlers : ClockStart(h)
  \/ ClockStop
  \/ \E i \in 1..MaxCycles, r \in {"ok", "throw"} : HandlerSettled(i, r)
  \/ Len(cycles) < MaxCycles /\ \E count \in 1..2 : TestTick(count)
  \/ Len(cycles) < MaxCycles /\ \E ms \in {1, 3} : TestAdvanceBy(ms)
  \/ Len(cycles) < MaxCycles /\ TestFlush
  \/ cycles = <<>> /\ TestReset

InitTestConc == Boot("default", <<>>) /\ ClockBoot("test")

SpecTestConc == InitTestConc /\ [][NextTestConc]_vars

\* SpecDrift: an interval clock observed for a longer time, on a host whose
\* timers may be late and whose handlers settle within the millisecond
NextDrift ==
  \/ \E h \in Handlers : ClockStart(h)
  \/ ClockStop
  \/ \E i \in 1..(MaxCycles + 1) : TimerFire(i)
  \/ \E i \in 1..MaxCycles : HandlerSettled(i, "ok")
  \/ ElapseIdle

InitDrift == Boot("default", <<>>) /\ ClockBoot("drop")

SpecDrift == InitDrift /\ [][NextDrift]_vars

\* time passes while every handler in flight has time left to settle; a timer
\* is at most MaxLate late
ElapseLive ==
  /\ clockKind \in Interval /\ now < MaxLiveTime
  /\ \A j \in DOMAIN timers : now + 1 <= timers[j].due + MaxLate
  /\ \A i \in DOMAIN cycles : now + 1 <= cycles[i].start + MaxSettle
  /\ now' = now + 1
  /\ UNCHANGED <<busVars, clockKind, clock, timers, cycles, clog, lastCall, fed>>

\* SpecDropLive: an interval clock under drop that is started and stays running;
\* the event loop runs every timer that is due, every handler invoked settles
\* (resolves or rejects) within MaxSettle, and time goes on
NextDropLive ==
  \/ Epoch(clog) = 0 /\ ClockStart("h1")
  \/ \E i \in 1..(MaxCycles + 1) : TimerFire(i)
  \/ \E i \in 1..MaxCycles, r \in {"ok", "throw"} : HandlerSettled(i, r)
  \/ ElapseLive

TimerFires == \E i \in 1..(MaxCycles + 1) : TimerFire(i)
HandlerSettles == \E i \in 1..MaxCycles, r \in {"ok", "throw"} : HandlerSettled(i, r)

InitDropLive == Boot("default", <<>>) /\ ClockBoot("drop")

SpecDropLive ==
  /\ InitDropLive /\ [][NextDropLive]_vars
  /\ WF_vars(TimerFires) /\ WF_vars(HandlerSettles) /\ WF_vars(ElapseLive)

\* ---- the clock source (clock/source.ts) -----------------------------------
\* toSignal of the wiring test (source.test.ts 12-20): id `tick-${tick.seq}`, type
\* "clock.tick" (the type "y" of the bus)
ToSignal(seq) == "tick-" \o ToString(seq)

\* the clock part of a step of the wired clock
SourceClock(m, op, err) ==
  /\ clock' = m.c /\ timers' = m.tm /\ cycles' = m.cy /\ clog' = m.lg /\ fed' = m.fd
  /\ lastCall' = (IF op = "" THEN lastCall ELSE [op |-> op, err |-> err, par |-> 1 - lastCall.par,
                                                      was |-> clock.running])
  /\ UNCHANGED <<clockKind, now>>

\* the tick handler of the source (source.ts 29-32): when the clock has invoked
\* it, it calls emit(toSignal(tick)), which runs up to `await store.save`
SourceEmit(m) ==
  IF Len(m.lg) > Len(clog) /\ m.lg[Len(m.lg)].e = "call"
  THEN LET s == ToSignal(m.lg[Len(m.lg)].seq)
       IN /\ emitted' = emitted \cup {s}
          /\ emittedCount' = emittedCount + 1
          /\ tasks' = Append(tasks, Log(NewTask("emit", s, "save"), Ev("save", s, "", 0)))
          /\ UNCHANGED <<cfg, tables, middlewareStack, handledCount, errorCount, processing,
                         store, nextMw, clears>>
  ELSE UNCHANGED busVars

\* clock.tick(count) on the wired test clock (test-clock.ts 113-121)
SourceTick(count) ==
  /\ clockKind = "test"
  /\ IF ~clock.running THEN SourceClock(Machine, "tick", "Clock not running") /\ UNCHANGED busVars
     ELSE /\ CallsMade + count <= MaxPushes
          /\ LET m == TestLoop([Machine EXCEPT !.fd.sum = 0 - 1],
                               [Frame("test") EXCEPT !.op = "tick", !.left = count])
             IN SourceClock(m, IF Len(m.cy) = Len(cycles) THEN "tick" ELSE "", "") /\ SourceEmit(m)

\* the emit call made for the invocation that frame f waits for: the k-th
\* invocation made the k-th emit call
EmitOf(f) == Len(SelectSeq(SubSeq(clog, 1, f.call), LAMBDA ev : ev.e = "call"))

\* (mutant) the handler of the source does not await emit: its promise settles
\* while the bus still dispatches the signal
SourceSettledEarly(i) ==
  /\ clockKind = "test" /\ i \in DOMAIN cycles
  /\ LET f == cycles[i]
         r == IF tasks[EmitOf(f)].pc = "rejected" THEN "throw" ELSE "ok"
         m == [Machine EXCEPT !.cy = RemoveAt(cycles, i)]
         m1 == TestResume(m, f, r)
     IN /\ SourceClock(m1, IF Len(m1.cy) = Len(m.cy) THEN f.op ELSE "",
                       IF r = "throw" THEN "handler error" ELSE "")
        /\ SourceEmit(m1)

\* `await emit(signal)` of the handler settles as emit did (source.ts 31), then
\* fireSingleTick and the loop of tick go on (test-clock.ts 62-71, 117-120)
SourceSettled(i) ==
  /\ clockKind = "test" /\ i \in DOMAIN cycles
  /\ tasks[EmitOf(cycles[i])].pc \in Final
  /\ LET f == cycles[i]
         r == IF tasks[EmitOf(f)].pc = "rejected" THEN "throw" ELSE "ok"
         m == [Machine EXCEPT !.cy = RemoveAt(cycles, i)]
         m1 == TestResume(m, f, r)
     IN /\ SourceClock(m1, IF Len(m1.cy) = Len(m.cy) THEN f.op ELSE "",
                       IF r = "throw" THEN "handler error" ELSE "")
        /\ SourceEmit(m1)

\* source.start(emit) and source.stop() (source.ts 28-37)
SourceStart(h) == regs # <<>> /\ ClockStart(h)
SourceStop == ClockStop

\* SpecSource: test clock -> clock source -> bus with the default collaborators
\* and one handler for the tick type, registered before the source is started;
\* the owner awaits each tick() and starts and stops the source at any time; the
\* handler of the bus returns or throws
NextSource ==
  \/ regs = <<>> /\ On("y", "h1")
  \/ \E h \in Handlers : SourceStart(h)
  \/ SourceStop
  \/ cycles = <<>> /\ \E count \in 1..MaxPushes : SourceTick(count)
  \/ \E i \in 1..MaxCycles : SourceSettled(i)
  \/ \E k \in 1..MaxPushes : SaveDone(k, "ok")
  \/ \E k \in 1..MaxPushes, r \in {"ok", "throw"} : HandlerDone(k, r)
  \/ \E k \in 1..MaxPushes : AckCall(k)
  \/ \E k \in 1..MaxPushes : AckDone(k)

InitSource == Boot("default", <<>>) /\ ClockBoot("test")

SpecSource == InitSource /\ [][NextSource]_vars

\* ---- reading the history of the clock -------------------------------------
\* the handler invocations of epoch ep, in call order
CallsOf(ep) == SelectSeq(clog, LAMBDA ev : ev.e = "call" /\ ev.ep = ep)
\* invocation ev has not settled yet
Pending(ev) == ev.e = "call" /\ ev.end < 0
\* the epoch that is running, 0 when the clock is idle
Epochs == 1..Epoch(clog)

\* ---- C12 -----------------------------------------------------------------
\* C12: for the interval clock under every policy and for the bridge clock, the
\* ticks passed to the handler within one start epoch carry seq 0, 1, 2, ... in
\* the order of the calls, catch-up ticks included, also when the clock was
\* restarted while a handler of the previous epoch was still running.
C12_Seq ==
  clockKind \in Interval \cup {"bridge"} =>
    \A ep \in Epochs : \A p \in 1..Len(CallsOf(ep)) : CallsOf(ep)[p].seq = p - 1

\* the second epoch has delivered ticks 0 and 1, one of them a catch-up tick,
\* while a handler invoked in the first epoch is still running
C12_Witness ==
  /\ clockKind \in Interval /\ Len(CallsOf(2)) >= 2
  /\ \E p \in 1..Len(CallsOf(2)) : CallsOf(2)[p].reason = "catchup"
  /\ \E p \in 1..Len(CallsOf(1)) : Pending(CallsOf(1)[p])

\* ---- C13 -----------------------------------------------------------------
\* the step is a call of op on the clock that returned without throwing
Returned(op) == lastCall' # lastCall /\ lastCall'.op = op /\ lastCall'.err = ""

\* every field of a stats() result is zero (averages are <<sum, count>> pairs)
IsZero(st) ==
  /\ st.tickCount = 0 /\ st.droppedTicks = 0 /\ st.errors = 0 /\ st.avgHandlerMs[1] = 0
  /\ st.avgDriftMs[1] = 0 /\ st.lastTickAt = 0 /\ st.maxHandlerMs = 0

\* C13: for every clock (interval, test, bridge), right after a successful
\* start, also one that follows the stop of an epoch in which ticks fired, seq
\* is 0 and every field of stats() is 0.
C13_StartZero ==
  [][(Returned("start") /\ clock'.running /\ ~clock.running) =>
       (clock'.seq = 0 /\ IsZero(ClockStats'))]_vars

\* the same, for the interval clock and the bridge clock only
C13_StartZeroReal ==
  [][(clockKind # "test" /\ Returned("start") /\ clock'.running /\ ~clock.running) =>
       (clock'.seq = 0 /\ IsZero(ClockStats'))]_vars

\* ---- C14 -----------------------------------------------------------------
\* C14: for every clock, start(h2) on a running clock throws "Clock already
\* running" and changes nothing: the clock keeps running with the handler it
\* had, and seq, stats and the pending timer are unchanged.
C14_StartRunning ==
  [][(lastCall' # lastCall /\ lastCall'.op = "start" /\ clock.running) =>
       /\ lastCall'.err = "Clock already running"
       /\ clock'.running /\ clock'.handler = clock.handler /\ clock'.seq = clock.seq
       /\ ClockStats' = ClockStats /\ timers' = timers
       /\ clock' = clock /\ cycles' = cycles /\ clog' = clog]_vars

\* start has just thrown on a clock that runs with handler h1, has ticked and has
\* a timer pending
C14_Witness ==
  /\ lastCall.op = "start" /\ lastCall.err = "Clock already running"
  /\ clock.running /\ clock.handler = "h1" /\ clock.seq > 0 /\ timers # <<>>

\* ---- C15 -----------------------------------------------------------------
\* C15: for every clock stop() never throws; on an idle clock it leaves running
\* false and seq and stats as they are, and a second stop() in a row leaves the
\* clock in the state the first one left it in.
C15_StopIdempotent ==
  [][(lastCall' # lastCall /\ lastCall'.op = "stop") =>
       /\ lastCall'.err = "" /\ ~clock'.running
       /\ ~clock.running =>
            /\ clock'.seq = clock.seq /\ ClockStats' = ClockStats
            /\ clock' = clock /\ timers' = timers /\ cycles' = cycles /\ clog' = clog]_vars

\* stop() was called twice in a row on a clock that had ticked
C15_Witness ==
  /\ lastCall.op = "stop" /\ ~lastCall.was /\ ~clock.running
  /\ clock.seq > 0 /\ ClockStats.tickCount > 0

\* ---- C16 -----------------------------------------------------------------
\* no handler invocation begins between a stop() and the next start()
NoCallWhileStopped ==
  \A p \in 1..Len(clog) : clog[p].e = "call" =>
    \E q \in 1..(p - 1) : /\ clog[q].e = "start"
                          /\ \A x \in (q + 1)..(p - 1) : clog[x].e # "stop"

\* C16: for the interval clock under every policy, once stop() has returned no
\* handler invocation begins until the next start: no timer of the clock is
\* pending any more, and a cycle in flight at the stop fires no further tick.
C16_StopQuiet ==
  clockKind \in Interval => (NoCallWhileStopped /\ (~clock.running => timers = <<>>))

\* the part of C16 about handler invocations alone
C16_NoInvocation == clockKind \in Interval => NoCallWhileStopped

\* ---- C17 -----------------------------------------------------------------
\* within epoch ep each invocation begins when the one before it has ended, and
\* no earlier than gap after that
Spaced(ep, gap) ==
  \A p \in 2..Len(CallsOf(ep)) :
    /\ ~Pending(CallsOf(ep)[p - 1])
    /\ CallsOf(ep)[p].t >= CallsOf(ep)[p - 1].end + gap

\* C17: for the interval clock under block, in every reachable state
\* droppedTicks is 0, every delivered tick has reason "interval" and drift 0, no
\* invocation begins while the previous one is running, and each invocation
\* begins no earlier than intervalMs after the previous one ended (read within
\* one start epoch).
C17_Block ==
  clockKind = "block" =>
    /\ ClockStats.droppedTicks = 0
    /\ \A p \in 1..Len(clog) : clog[p].e = "call" => (clog[p].reason = "interval" /\ clog[p].drift = 0)
    /\ \A ep \in Epochs : Spaced(ep, IntervalMs)

\* the same for a clock that is started once
C17_BlockOneEpoch ==
  (clockKind = "block" /\ Epoch(clog) <= 1) =>
    /\ ClockStats.droppedTicks = 0
    /\ \A p \in 1..Len(clog) : clog[p].e = "call" => (clog[p].reason = "interval" /\ clog[p].drift = 0)
    /\ Spaced(1, IntervalMs)

\* ---- C18 -----------------------------------------------------------------
\* C18: for the interval clock under drop, within one start epoch no handler
\* invocation begins while an earlier invocation (of an interval tick or of a
\* catch-up tick) is still running.  Read on a clock that was started once.
C18_DropNoOverlap ==
  (clockKind = "drop" /\ Epoch(clog) = 1) => Spaced(1, 0)

\* ---- C19 -----------------------------------------------------------------
\* ticks fired plus ticks dropped at the times a..(b - 1)
RECURSIVE Counted(_, _, _)
Counted(lg, a, b) ==
  IF lg = <<>> THEN 0
  ELSE LET ev == Head(lg)
           c == IF ev.t < a \/ ev.t >= b THEN 0
                ELSE IF ev.e = "call" THEN 1 ELSE IF ev.e = "drop" THEN ev.n ELSE 0
       IN c + Counted(Tail(lg), a, b)

\* the position in the history of the first start
StartedAt == (CHOOSE p \in 1..Len(clog) : clog[p].e = "start" /\ clog[p].ep = 1)

\* C19: for the interval clock under drop or adaptive, for every handler
\* duration, within any window of N intervals while the clock is running the
\* ticks fired plus the ticks dropped number between N - 1 and N + 1.  Read on
\* a clock that was started once and is still running, and whose timers all
\* fired on time (none fired late, none is overdue).
C19_Window ==
  (clockKind \in {"drop", "adaptive"} /\ Epoch(clog) = 1 /\ clock.running
     /\ \A p \in 1..Len(clog) : clog[p].e # "late"
     /\ \A i \in 1..Len(timers) : timers[i].due >= now) =>
    \A n \in 1..(MaxTime \div IntervalMs) : \A a \in clog[StartedAt].t..MaxTime :
      (a + n * IntervalMs <= now) =>
        /\ Counted(clog, a, a + n * IntervalMs) >= n - 1
        /\ Counted(clog, a, a + n * IntervalMs) <= n + 1

\* the same claim for the drop policy alone
C19_WindowDrop == clockKind = "drop" => C19_Window

\* ---- C20 -----------------------------------------------------------------
\* the number of ticks the cycle of the call at position p fired before it
RECURSIVE Ord(_)
Ord(p) == IF clog[p].prev = 0 THEN 0 ELSE 1 + Ord(clog[p].prev)

C20_WitnessDrop ==
  /\ clockKind = "drop"
  /\ \E p \in 1..Len(clog) :
       /\ clog[p].e = "call" /\ clog[p].reason = "catchup" /\ clog[p].end >= 0
       /\ Ord(p) = MaxCatchUpTicks

\* ---- C21 -----------------------------------------------------------------
\* the "interval" ticks of epoch ep, in the order they were fired
IntervalTicks(ep) == SelectSeq(CallsOf(ep), LAMBDA ev : ev.reason = "interval")
\* every timer fired when it was due, and none is overdue
OnTime ==
  /\ \A p \in 1..Len(clog) : clog[p].e # "late"
  /\ \A i \in 1..Len(timers) : timers[i].due >= now
\* every handler invocation took (or has taken so far) less than intervalMs
ShortHandlers ==
  \A p \in 1..Len(clog) : clog[p].e = "call" =>
    (IF clog[p].end >= 0 THEN clog[p].end ELSE now) - clog[p].t < IntervalMs

\* C21: under adaptive the clock is fixed-rate with self-correction, the next
\* cycle is delayed by max(0, intervalMs - elapsed): when the timers fire on time
\* and every handler takes less than intervalMs, consecutive "interval" ticks of
\* a start epoch begin exactly intervalMs apart.  Read on a clock started once
\* and still running.
C21_AdaptiveRate ==
  (clockKind = "adaptive" /\ Epoch(clog) = 1 /\ clock.running /\ OnTime /\ ShortHandlers) =>
    \A p \in 2..Len(IntervalTicks(1)) :
      IntervalTicks(1)[p].t = IntervalTicks(1)[p - 1].t + IntervalMs

\* the same for handlers that settle in the millisecond they were invoked
C21_AdaptiveInstant ==
  (clockKind = "adaptive" /\ Epoch(clog) = 1 /\ clock.running /\ OnTime
     /\ \A p \in 1..Len(clog) : clog[p].e = "call" => clog[p].end = clog[p].t) =>
    \A p \in 2..Len(IntervalTicks(1)) :
      IntervalTicks(1)[p].t = IntervalTicks(1)[p - 1].t + IntervalMs

\* ---- C22 -----------------------------------------------------------------
\* |drift| of the tick of invocation ev is above 0.8 * intervalMs
HighDrift(ev) == Abs(ev.drift) * 10 > IntervalMs * 8
\* the position of the invocation before position p in the same epoch, or 0
PrevCall(p) ==
  LET Q == {q \in 1..(p - 1) : clog[q].e = "call" /\ clog[q].ep = clog[p].ep}
  IN IF Q = {} THEN 0 ELSE CHOOSE q \in Q : \A x \in Q : x <= q
\* the length of the unbroken run of high-drift ticks that ends with the tick at p
RECURSIVE RunAt(_)
RunAt(p) ==
  IF ~HighDrift(clog[p]) THEN 0
  ELSE 1 + (IF PrevCall(p) = 0 THEN 0 ELSE RunAt(PrevCall(p)))

\* C22: for the interval clock, onDriftWarning is invoked on a tick exactly when
\* the tick is the fifth or a later one of an unbroken run of ticks with
\* |drift| > 0.8 * intervalMs inside the current start epoch; a tick at or below
\* the threshold and every start begin a new run.
C22_DriftWarning ==
  clockKind \in Interval =>
    \A p \in 1..Len(clog) : clog[p].e = "call" =>
      (clog[p].warn <=> RunAt(p) >= DRIFT_WARN_COUNT)

\* onDriftWarning was invoked on the fifth tick of a run
C22_Witness ==
  \E p \in 1..Len(clog) :
    clog[p].e = "call" /\ clog[p].warn /\ RunAt(p) = DRIFT_WARN_COUNT

\* a run of four high-drift ticks was ended by a tick at or below the threshold
C22_RunBroken ==
  \E p \in 1..Len(clog) :
    /\ clog[p].e = "call" /\ ~HighDrift(clog[p]) /\ PrevCall(p) # 0
    /\ RunAt(PrevCall(p)) >= DRIFT_WARN_COUNT - 1

\* ---- C23 -----------------------------------------------------------------
\* in this step the handler invocation logged at position p settled with outcome r
SettledNow(p, r) ==
  /\ p \in 1..Len(clog) /\ clog[p].e = "call" /\ clog[p].end < 0
  /\ Len(clog') >= p /\ clog'[p].end >= 0 /\ clog'[p].r = r

\* what a step that settles handler invocations does, on an interval clock
HandlerErrorStep ==
  clockKind \in Interval =>
    \A p \in 1..Len(clog) :
      /\ SettledNow(p, "throw") =>
           /\ clock'.errors = clock.errors + 1
           /\ lastCall' = lastCall
           /\ clock'.running = clock.running /\ clock'.handler = clock.handler
           /\ clock.running => (cycles' # <<>> \/ \E i \in 1..Len(timers') : timers'[i].cur)
           /\ (clockKind = "drop" /\ clog[p].reason = "interval") => ~clock'.busy
      /\ SettledNow(p, "ok") => clock'.errors = clock.errors

CallsSinceReset == CallsMade - fed.base

AtOnce(op) == cycles = <<>> /\ lastCall' # lastCall /\ lastCall'.op = op
\* the step is a call of op that invokes the handler and starts to wait for it
Begins(op) == cycles = <<>> /\ Len(cycles') = 1 /\ cycles'[1].op = op

\* what the steps of a flush() do
FlushStep ==
  clockKind = "test" =>
    /\ (AtOnce("flush") /\ lastCall'.err = "") =>
         (clock.running /\ clock.accumulator = 0 /\ clock' = clock /\ clog' = clog)
    /\ Begins("flush") =>
         /\ clock.running /\ clock.accumulator > 0
         /\ clock'.virtualTime = clock.virtualTime + clock.accumulator
         /\ clock'.accumulator = 0
         /\ Len(clog') = Len(clog) + 1
         /\ clog'[Len(clog')].e = "call" /\ clog'[Len(clog')].reason = "manual"
         /\ clog'[Len(clog')].ts = clock'.virtualTime
    /\ (cycles # <<>> /\ cycles[1].op = "flush") => CallsMade' = CallsMade

\* C25: flush() on a running test clock with residual accumulator r > 0 advances
\* virtual time by exactly r, sets the accumulator to 0 and fires exactly one
\* "manual" tick whose ts is the new virtual time; with accumulator 0 it fires
\* nothing and changes nothing.
C25_Flush == [][FlushStep]_vars

\* a flush() with a residual has fired its tick, whose ts is no multiple of
\* intervalMs, and has resolved
C25_Witness ==
  /\ clockKind = "test" /\ cycles = <<>> /\ lastCall.op = "flush" /\ lastCall.err = ""
  /\ clog # <<>> /\ clog[Len(clog)].e = "call" /\ clog[Len(clog)].end >= 0
  /\ clog[Len(clog)].ts % IntervalMs # 0 /\ clock.virtualTime = clog[Len(clog)].ts
  /\ clock.accumulator = 0

\* a flush() without residual has returned
C25_WitnessNothing ==
  /\ clockKind = "test" /\ clock.running /\ lastCall.op = "flush" /\ lastCall.err = ""
  /\ clock.tickCount = 0

\* ---- C26 -----------------------------------------------------------------
\* the handler invocations that have not settled
PendingCalls == {p \in 1..Len(clog) : Pending(clog[p])}
\* the invocation at position p is the last one its tick/advanceBy/flush made
LastOfCall(p) == \A q \in 1..Len(clog) : clog[q].e = "call" => clog[q].prev # p
\* stop() was called while the invocation at position p was running
StoppedDuring(p) ==
  \E q \in (p + 1)..Len(clog) : clog[q].e = "stop" /\ (clog[p].end < 0 \/ clog[q].t <= clog[p].end)
\* the invocations of one tick/advanceBy call follow each other: each begins
\* after the one before it has settled, intervalMs of virtual time later
Sequential(p) ==
  clog[p].prev # 0 =>
    /\ clog[clog[p].prev].end >= 0
    /\ clog[p].n = clog[clog[p].prev].n - 1
    /\ clog[p].ts = clog[clog[p].prev].ts + IntervalMs
\* a call that has resolved made all its invocations: none remains after the last
Complete(p) ==
  (LastOfCall(p) /\ clog[p].r = "ok" /\ \A i \in 1..Len(cycles) : cycles[i].call # p) =>
    (clog[p].n = 0 \/ StoppedDuring(p))

C26_StartSilent == [][Returned("start") => CallsMade' = CallsMade]_vars

CalledAtOnce(op) ==
  lastCall' # lastCall /\ lastCall'.op = op /\ Len(cycles') = Len(cycles)

\* what a tick / advanceBy / flush on a clock that is not running does
NotRunningStep ==
  clockKind = "test" =>
    /\ \A op \in {"tick", "advanceBy", "flush"} :
         (CalledAtOnce(op) /\ ~clock.running) =>
           /\ lastCall'.err = "Clock not running"
           /\ clock' = clock /\ clog' = clog /\ cycles' = cycles /\ ClockStats' = ClockStats
    /\ Len(cycles') > Len(cycles) => clock.running

\* C27: tick, advanceBy and flush on a test clock that is not running (never
\* started, or stopped) reject with "Clock not running" and change no state:
\* virtual time, seq, accumulator and stats are unchanged and the handler is not
\* invoked.
C27_NotRunning == [][NotRunningStep]_vars

\* advanceBy was rejected on a clock that was stopped after it had ticked
C27_Witness ==
  /\ clockKind = "test" /\ ~clock.running /\ Epoch(clog) >= 1 /\ clock.tickCount >= 1
  /\ lastCall.op = "advanceBy" /\ lastCall.err = "Clock not running"

\* tick was rejected on a clock that was never started
C27_WitnessNew ==
  /\ clockKind = "test" /\ Epoch(clog) = 0
  /\ lastCall.op = "tick" /\ lastCall.err = "Clock not running"

\* ---- C28 -----------------------------------------------------------------
\* what a step in which a handler invocation of the test clock throws does
TestErrorStep ==
  clockKind = "test" =>
    \A p \in 1..Len(clog) : SettledNow(p, "throw") =>
      /\ clock'.errors = clock.errors + 1
      /\ \E i \in 1..Len(cycles) :
           /\ cycles[i].call = p
           /\ lastCall' # lastCall /\ lastCall'.op = cycles[i].op
           /\ lastCall'.op \in {"tick", "advanceBy", "flush"}
      /\ lastCall'.err = "handler error"
      /\ Len(cycles') = Len(cycles) - 1
      /\ CallsMade' = CallsMade

\* C28: on the test clock a handler that throws or rejects during tick,
\* advanceBy or flush increments stats().errors by exactly one, and the call
\* that invoked it rejects with the handler's error: the error is not swallowed
\* and the call makes no further invocation.
C28_TestRethrows == [][TestErrorStep]_vars

\* the first handler of a tick(2) threw: tick rejected and its second invocation
\* was not made
C28_Witness ==
  /\ clockKind = "test" /\ lastCall.op = "tick" /\ lastCall.err = "handler error"
  /\ ClockStats.errors = 1 /\ cycles = <<>>
  /\ \E p \in 1..Len(clog) :
       clog[p].e = "call" /\ clog[p].r = "throw" /\ clog[p].n = 1 /\ LastOfCall(p)

\* ---- C29 -----------------------------------------------------------------
\* the step is a push() on the bridge clock
Pushed == clockKind = "bridge" /\ lastCall' # lastCall /\ lastCall'.op = "push"

\* what a push() does
PushStep ==
  Pushed =>
    IF clock.running
    THEN /\ Len(clog') = Len(clog) + 1
         /\ clog'[Len(clog')].e = "call" /\ clog'[Len(clog')].reason = "bridge"
         /\ clog'[Len(clog')].seq = Len(CallsOf(Epoch(clog)))
         /\ clog'[Len(clog')].ts = now /\ clog'[Len(clog')].h = clock.handler
         /\ clock'.seq = clock.seq + 1
    ELSE clock' = clock /\ clog' = clog /\ cycles' = cycles /\ ClockStats' = ClockStats

\* C29: on a running bridge clock every push() invokes the handler exactly once,
\* within the push, with reason "bridge", and the k-th push of the epoch carries
\* seq k - 1, whether or not earlier asynchronous invocations have settled;
\* push() on a clock that is not running invokes nothing and leaves seq and
\* stats unchanged.
C29_Push == [][PushStep]_vars

\* the second push of an epoch was made while the handler invoked by the first
\* had not settled
C29_Witness ==
  /\ clockKind = "bridge" /\ clock.running
  /\ Len(CallsOf(Epoch(clog))) >= 2
  /\ Pending(CallsOf(Epoch(clog))[1]) /\ CallsOf(Epoch(clog))[2].seq = 1

\* a push was made on a bridge clock that had been stopped
C29_WitnessStopped ==
  /\ clockKind = "bridge" /\ ~clock.running /\ ~lastCall.was /\ lastCall.op = "push"
  /\ clock.tickCount >= 1

\* ---- C30 -----------------------------------------------------------------
\* what push() and the settlement of an asynchronous handler do with errors
PushErrorStep ==
  clockKind = "bridge" =>
    /\ Pushed =>
         /\ lastCall'.err = ""
         /\ clock.running =>
              /\ clock'.tickCount = clock.tickCount + 1
              /\ clock'.errors = clock.errors + (IF clog'[Len(clog')].r = "throw" THEN 1 ELSE 0)
              /\ clog'[Len(clog')].end < 0 => Len(cycles') = Len(cycles) + 1
    /\ \A p \in 1..Len(clog) :
         /\ SettledNow(p, "throw") =>
              (clock'.errors = clock.errors + 1 /\ lastCall' = lastCall
                 /\ clock'.tickCount = clock.tickCount)
         /\ SettledNow(p, "ok") => (clock'.errors = clock.errors /\ lastCall' = lastCall)

\* C30: bridge-clock push() never throws: a handler that throws synchronously
\* increments errors by one before push returns; a handler whose promise
\* rejects increments errors by one when it settles, push having returned
\* without waiting and nobody receiving the rejection; tickCount counts the
\* push in both cases.
C30_PushErrors == [][PushErrorStep]_vars

\* one handler threw within push and one rejected later; both are counted
C30_Witness ==
  /\ clockKind = "bridge" /\ lastCall.op = "push" /\ lastCall.err = ""
  /\ ClockStats.errors = 2 /\ ClockStats.tickCount >= 2
  /\ \E p, q \in 1..Len(clog) :
       /\ clog[p].e = "call" /\ clog[p].r = "throw" /\ clog[p].end > clog[p].t
       /\ clog[q].e = "call" /\ clog[q].r = "throw" /\ clog[q].end = clog[q].t

\* ---- C32 -----------------------------------------------------------------
\* C32: for the interval clock under every policy, for any sequence of start
\* and stop calls, at most one timer of the clock is pending at any time: a
\* callback of an earlier epoch whose handler settles after stop() and start()
\* arms no timer in the new epoch.
C32_OneChain == clockKind \in Interval => Len(timers) <= 1

\* the same on a clock that was started once
C32_OneChainOneEpoch == (clockKind \in Interval /\ Epoch(clog) <= 1) => Len(timers) <= 1

\* the same under the drop policy, whose handler callback arms no timer
C32_OneChainDrop == clockKind = "drop" => Len(timers) <= 1

\* ---- C33 -----------------------------------------------------------------
\* in this step a cycle of the drop policy finished: a callback of the policy
\* ended without firing a further tick
DropCycleEnds ==
  /\ clockKind = "drop" /\ Len(cycles') = Len(cycles) - 1
  /\ CallsMade' = CallsMade

\* the ticks the drop policy dropped in this step
DroppedNow == clock'.droppedTicks - clock.droppedTicks

\* what the end of a drop cycle leaves behind
DropClampStep ==
  DropCycleEnds =>
    /\ clock.nextIdealTime < now => DroppedNow = (now - clock.nextIdealTime) \div IntervalMs
    /\ clock.nextIdealTime >= now => DroppedNow = 0
    /\ clock'.nextIdealTime = clock.nextIdealTime + DroppedNow * IntervalMs
    /\ clock'.nextIdealTime + IntervalMs > now

\* C33: under drop, whenever a handler cycle (interval tick, catch-up loop,
\* clamp) finishes, nextIdealTime is less than one intervalMs behind the current
\* time, and the clamp has added to droppedTicks exactly
\* floor((now - nextIdealTime) / intervalMs), the whole intervals it skipped.
C33_DropClamp == [][DropClampStep]_vars

\* the clamp has just skipped a whole interval
C33_Witness ==
  /\ clockKind = "drop" /\ cycles = <<>> /\ clog # <<>>
  /\ clog[Len(clog)].e = "drop" /\ clog[Len(clog)].reason = "clamp"
  /\ clog[Len(clog)].t = now /\ clock.droppedTicks >= clog[Len(clog)].n

\* ---- C34 -----------------------------------------------------------------
\* in this step an adaptive timer cycle ran to its end and scheduled the next:
\* a timer callback, or the code after an awaited handler, armed a timer and
\* fired no further tick
AdaptiveCycleEnds ==
  /\ clockKind = "adaptive" /\ Epoch(clog') = Epoch(clog) /\ clock'.running
  /\ CallsMade' = CallsMade
  /\ Len(timers') + Len(cycles') = Len(timers) + Len(cycles)
  /\ <<timers', cycles'>> # <<timers, cycles>>

\* the accumulator the clamp of this step worked on
AccBeforeClamp ==
  IF Len(cycles') < Len(cycles) THEN clock.accumulator
  ELSE clock.accumulator + IntervalMs + (now - clock.nextIdealTime)

\* the accumulator after the clamp, and what the clamp counted
AdaptiveClampStep ==
  AdaptiveCycleEnds =>
    /\ 0 <= clock'.accumulator /\ clock'.accumulator < IntervalMs
    /\ AccBeforeClamp = clock'.accumulator + DroppedNow * IntervalMs
    /\ clock'.nextIdealTime = now + IntervalMs - clock'.accumulator
    /\ timers'[Len(timers')] = [due |-> clock'.nextIdealTime, cur |-> TRUE, ep |-> Epoch(clog)]

\* C34: under adaptive, at the end of every timer cycle that runs to completion
\* (where the next cycle is scheduled) 0 <= accumulator < intervalMs, and the
\* whole intervals the clamp removed have been added to droppedTicks.
C34_AdaptiveClamp == [][AdaptiveClampStep]_vars

\* a cycle has ended with a clamp and scheduled the next
C34_Witness ==
  /\ clockKind = "adaptive" /\ clock.running /\ clog # <<>>
  /\ clog[Len(clog)].e = "drop" /\ clog[Len(clog)].reason = "clamp"
  /\ clog[Len(clog)].t = now /\ clock.accumulator < IntervalMs
  /\ \E p \in 1..Len(timers) : timers[p].cur /\ timers[p].due = clock.nextIdealTime

\* a cycle has ended without a clamp and scheduled the next
C34_WitnessNoClamp ==
  /\ clockKind = "adaptive" /\ clock.running /\ cycles = <<>> /\ clock.droppedTicks = 0
  /\ clog # <<>> /\ clog[Len(clog)].e = "call" /\ clog[Len(clog)].end = now
  /\ \E p \in 1..Len(timers) : timers[p].cur /\ timers[p].due = clock.nextIdealTime

\* ---- C35 -----------------------------------------------------------------
\* the call is inside processSignal
Dispatching(t) == t.pc \in {"mw", "handler", "unwind"}

\* how many signals the call has handed to the transport
Sends(t) == Len(SelectSeq(t.tr, LAMBDA ev : ev.e = "send"))

\* the middleware entered for the signal being dispatched, in order
PreRun(t) ==
  LET last == CHOOSE p \in 0..Len(t.tr) :
                /\ p = 0 \/ t.tr[p].e = "send"
                /\ \A q \in (p + 1)..Len(t.tr) : t.tr[q].e # "send"
      pres == SelectSeq(SubSeq(t.tr, last + 1, Len(t.tr)), LAMBDA ev : ev.e = "pre")
  IN [p \in 1..Len(pres) |-> pres[p].n]

\* the chain of a dispatch is the list at its beginning and stays what it was
ChainStep ==
  \A k \in DOMAIN tasks' :
    LET t1 == tasks'[k]
        began == k \notin DOMAIN tasks \/ Sends(t1) > Sends(tasks[k])
    IN Dispatching(t1) =>
         /\ began => t1.chain = middlewareStack'
         /\ ~began => t1.chain = tasks[k].chain
         /\ Len(PreRun(t1)) <= Len(t1.chain)
         /\ PreRun(t1) = SubSeq(t1.chain, 1, Len(PreRun(t1)))

\* C35: each dispatch runs the middleware list as it is when that signal's
\* dispatch begins: use() or clear() while the signal is being dispatched does
\* not change the chain run for it, and applies to every signal dispatched
\* afterwards.
C35_ChainSnapshot == [][ChainStep]_vars

\* clear() emptied the list while the first of two middleware of a chain ran
C35_Witness ==
  \E k \in DOMAIN tasks :
    /\ tasks[k].pc = "mw" /\ tasks[k].depth = 1 /\ Len(tasks[k].chain) >= 2
    /\ middlewareStack = <<>> /\ clears > tasks[k].c0

\* use() added a middleware while a signal was being dispatched
C35_WitnessUse ==
  \E k \in DOMAIN tasks :
    /\ Dispatching(tasks[k]) /\ Len(middlewareStack) > Len(tasks[k].chain)
    /\ tasks[k].chain # <<>> /\ PreRun(tasks[k]) = tasks[k].chain

\* a signal dispatched after clear() runs no middleware
C35_WitnessAfter ==
  \E k \in DOMAIN tasks :
    /\ tasks[k].pc = "handler" /\ tasks[k].chain = <<>> /\ clears > 0 /\ nextMw > 1
    /\ tasks[k].c0 = clears

\* ---- C37 -----------------------------------------------------------------
\* a middleware of the dispatch of the call's signal returned without next()
ShortCircuited(t) == \E p \in DOMAIN t.tr : t.tr[p].e = "ret" /\ t.tr[p].sig = t.sig

\* the positions of a sequence that hold x
Holds(sq, x) == \E p \in DOMAIN sq : sq[p] = x

\* an emit whose dispatch was short-circuited resolves with its signal acked,
\* and what replay fetches holds no acked signal
ShortAckStep ==
  \A k \in DOMAIN tasks :
    /\ (tasks[k].kind = "emit" /\ InFlight(tasks[k]) /\ tasks'[k].pc = "resolved"
          /\ ShortCircuited(tasks[k]) /\ cfg = "custom")
         => /\ tasks[k].sig \in acked'
            /\ tasks[k].pc = "ack"
    /\ (tasks[k].kind = "replay" /\ tasks[k].pc = "fetch" /\ tasks'[k].pc # "fetch")
         => \A s \in acked : ~Holds(tasks'[k].got, s) /\ tasks'[k].sig # s

\* C37: a signal whose dispatch is short-circuited by a middleware (next() not
\* called) is still marked acked when emit resolves, exactly like a fully
\* handled signal, so a later replay() never re-dispatches it.
C37_ShortCircuitAcked == [][ShortAckStep]_vars

\* a signal of a type with a handler was emitted, short-circuited (no handler
\* ran or failed) and acked, and a later replay() has resolved
C37_Witness ==
  /\ cfg = "custom" /\ middlewareStack # <<>> /\ handledCount = 0 /\ errorCount = 0
  /\ \E s \in emitted \cap acked : typeHandlers[SigType(s)] # 0
  /\ \E k \in DOMAIN tasks : k > 1 /\ tasks[k].kind = "replay" /\ tasks[k].pc = "resolved"
                             /\ tasks[k - 1].kind = "emit" /\ tasks[k - 1].pc = "resolved"

\* ---- C36 -----------------------------------------------------------------
\* what stop() and reset() of the test clock change and what they leave alone
TestFrameStep ==
  clockKind = "test" =>
    /\ CalledAtOnce("stop") =>
         /\ clock' = [clock EXCEPT !.running = FALSE, !.handler = "", !.accumulator = 0]
         /\ ClockStats' = ClockStats
         /\ lastCall'.err = ""
    /\ CalledAtOnce("reset") =>
         /\ clock'.virtualTime = 0 /\ clock'.seq = 0 /\ clock'.accumulator = 0
         /\ clock'.tickCount = 0 /\ clock'.errors = 0 /\ clock'.totalHandlerMs = 0
         /\ clock'.lastTickAt = 0 /\ clock'.maxHandlerMs = 0
         /\ clock'.running = clock.running /\ clock'.handler = clock.handler
         /\ lastCall'.err = ""

\* C36: test-clock stop() clears the handler and zeroes the accumulator but
\* leaves virtual time, seq and stats unchanged; reset() zeroes virtual time,
\* seq, accumulator and stats but leaves running and the registered handler
\* unchanged.
C36_TestFrame == [][TestFrameStep]_vars

\* stop() on a running test clock that has ticked, one handler error counted
C36_Witness ==
  /\ clockKind = "test" /\ lastCall.op = "stop" /\ lastCall.was /\ ~clock.running
  /\ clock.handler = "" /\ clock.accumulator = 0
  /\ clock.virtualTime > 0 /\ clock.seq > 0 /\ clock.tickCount > 0 /\ clock.errors > 0

\* reset() on a running test clock that had ticked
C36_WitnessReset ==
  /\ clockKind = "test" /\ lastCall.op = "reset" /\ clock.running /\ clock.handler # ""
  /\ CallsMade > 0 /\ clock.virtualTime = 0 /\ clock.seq = 0 /\ clock.tickCount = 0

\* ---- C38 -----------------------------------------------------------------
\* C38: clock statistics belong to one start epoch: in every reachable state of
\* the interval clock and of the bridge clock stats().errors <=
\* stats().tickCount, also when a handler invoked in an earlier epoch settles
\* after the clock has been stopped and started again.
C38_ErrorsBounded ==
  clockKind \in Interval \cup {"bridge"} => ClockStats.errors <= ClockStats.tickCount

\* the same on a clock that was started once
C38_ErrorsBoundedOneEpoch ==
  (clockKind \in Interval \cup {"bridge"} /\ Epoch(clog) <= 1)
    => ClockStats.errors <= ClockStats.tickCount

\* the same for the interval clock alone
C38_ErrorsBoundedInterval == clockKind \in Interval => ClockStats.errors <= ClockStats.tickCount

\* ---- C39 -----------------------------------------------------------------
\* pendingTicks (test-clock.ts 156-158)
PendingTicks == clock.accumulator \div IntervalMs

\* C39: in the test clock, at every point where control is outside advanceBy's
\* synchronous prefix (before and after every call, and whenever the handler
\* runs) 0 <= accumulator < intervalMs, so pendingTicks reads 0 in every
\* observable state.
C39_NoPendingTicks ==
  clockKind = "test" =>
    /\ 0 <= clock.accumulator /\ clock.accumulator < IntervalMs
    /\ PendingTicks = 0

\* advanceBy(3) on an accumulator of 1 fired two ticks and left no residual; the
\* handler of the first is running
C39_Witness ==
  /\ clockKind = "test" /\ clock.running /\ Len(cycles) = 1
  /\ cycles[1].op = "advanceBy" /\ cycles[1].left >= 1
  /\ clock.accumulator = 0 /\ fed.sum >= 4

\* a residual below intervalMs is carried between calls
C39_WitnessResidual ==
  /\ clockKind = "test" /\ clock.running /\ cycles = <<>> /\ lastCall.op = "advanceBy"
  /\ clock.accumulator = 1 /\ clock.tickCount >= 1

\* ---- C40 -----------------------------------------------------------------
\* the time a dropped tick waits at most for the next invocation: the handler in
\* flight settles, then the next timer fires
LiveSlack == Max(MaxSettle, IntervalMs + MaxLate)

\* event p of the history is a tick dropped by the busy check, early enough for
\* what follows to be seen
DroppedBusy(p) ==
  /\ clockKind = "drop" /\ p \in DOMAIN clog
  /\ clog[p].e = "drop" /\ clog[p].reason = "" /\ clog[p].t + LiveSlack <= MaxLiveTime

\* after event p the handler was invoked again
ServedAfter(p) == \E q \in (p + 1)..Len(clog) : clog[q].e = "call"

\* a tick was dropped and the handler has not been invoked since
Unserved == \E p \in DOMAIN clog : DroppedBusy(p) /\ ~ServedAfter(p)

\* C40: under the drop policy the busy flag never sticks: if every handler
\* invocation eventually settles (resolves or rejects) and the clock stays
\* running, then after any dropped tick the handler is eventually invoked again,
\* so ticks are delivered infinitely often.
C40_BusyNeverSticks == Unserved ~> ~Unserved

\* busy is set only while the handler of an interval tick is in flight
C40_BusyWhileInFlight ==
  (clockKind = "drop" /\ clock.busy) =>
    \E i \in DOMAIN cycles : cycles[i].reason = "interval" /\ clog[cycles[i].call].ep = Epoch(clog)

\* a tick was dropped while the handler ran, and the handler was invoked again
\* by a later timer
C40_Witness ==
  /\ clockKind = "drop" /\ clock.running
  /\ \E p \in DOMAIN clog :
       /\ DroppedBusy(p)
       /\ \E q \in (p + 1)..Len(clog) : clog[q].e = "call" /\ clog[q].reason = "interval"

\* ---- C31 -----------------------------------------------------------------
\* position of the k-th handler invocation in the history of the clock
CallPos(k) ==
  CHOOSE p \in 1..Len(clog) :
    clog[p].e = "call" /\ Len(SelectSeq(SubSeq(clog, 1, p), LAMBDA ev : ev.e = "call")) = k

\* the ticks asked for by the tick() calls that reached the handler
RECURSIVE Requested(_)
Requested(lg) ==
  IF lg = <<>> THEN 0
  ELSE (IF Head(lg).e = "call" /\ Head(lg).prev = 0 THEN Head(lg).n + 1 ELSE 0) + Requested(Tail(lg))

\* the last call on the clock was a tick() and it has resolved
TickResolved ==
  clockKind = "test" /\ lastCall.op = "tick" /\ lastCall.err = "" /\ cycles = <<>>

\* an iteration of a tick() loop found the clock stopped and invoked nothing
SkippedTick ==
  \E p \in 1..Len(clog) :
    clog[p].e = "call" /\ LastOfCall(p) /\ clog[p].n > 0 /\ clog[p].r = "ok"
      /\ \A i \in DOMAIN cycles : cycles[i].call # p

\* one emit per tick, in tick order, awaited
OneEmitPerTick ==
  /\ Len(tasks) = CallsMade /\ emittedCount = CallsMade
  /\ emitted = {ToSignal(j) : j \in 0..(CallsMade - 1)}
  /\ \A k \in 1..Len(tasks) :
       /\ clog[CallPos(k)].seq = k - 1
       /\ InFlight(tasks[k]) =>
            /\ tasks[k].sig = ToSignal(k - 1)
            /\ clog[CallPos(k)].end < 0
            /\ \E i \in DOMAIN cycles : cycles[i].call = CallPos(k)
            /\ \A j \in 1..Len(tasks) : j # k => ~InFlight(tasks[j])
  /\ handledCount + errorCount <= emittedCount

\* C31 as stated: the source emits once per tick, in order and awaited, and
\* after tick(n) resolves exactly n signals have been emitted and handled.
C31_Original ==
  clockKind = "test" =>
    /\ OneEmitPerTick
    /\ TickResolved =>
         /\ emittedCount = Requested(clog) /\ handledCount = Requested(clog)

\* C31 (amended): a source made by createClockSource calls emit(toSignal(tick))
\* exactly once per clock tick, in tick order, and awaits it; its stop() stops
\* the clock.  Wired test clock -> clock source -> bus with one typed handler:
\* after tick(n) resolves, every signal emitted has been dispatched (emitted =
\* handled + errors); if the handler did not throw and the clock was not stopped
\* while tick(n) was in flight, exactly n signals have been emitted and handled,
\* in seq order.
C31_SourceEmits ==
  clockKind = "test" =>
    /\ OneEmitPerTick
    /\ TickResolved =>
         /\ handledCount + errorCount = emittedCount
         /\ \A k \in 1..Len(tasks) : tasks[k].pc = "resolved"
         /\ ~SkippedTick => emittedCount = Requested(clog)
         /\ (~SkippedTick /\ errorCount = 0) => handledCount = Requested(clog)

\* source.stop() stops the clock
SourceStopStep == CalledAtOnce("stop") => ~clock'.running /\ clock'.handler = ""
C31_StopStops == [][SourceStopStep]_vars

\* tick(3) has resolved: three signals emitted and handled
C31_Witness ==
  /\ TickResolved /\ ~SkippedTick /\ errorCount = 0
  /\ Requested(clog) = 3 /\ clog[CallPos(1)].n = 2
  /\ emittedCount = 3 /\ handledCount = 3
  /\ emitted = {"tick-0", "tick-1", "tick-2"}

\* tick(2) has resolved, the handler of the bus threw once
C31_WitnessThrow ==
  /\ TickResolved /\ ~SkippedTick /\ Requested(clog) = 2 /\ errorCount = 1 /\ handledCount = 1
====
